---- MODULE Spec2Model ----
(***************************************************************************)
(* State-machine model of the syspass-cli API client core: the shared      *)
(* transport (api/syspass.rs), the current adapter (api/syspass/v3.rs),    *)
(* the legacy adapter (api/syspass/v2.rs), the vault-password cache and    *)
(* the usage store (config.rs).                                            *)
(*                                                                         *)
(* One action models one call of an operation of the api::Client trait,    *)
(* with every exchange it makes.  The server's reply and the answer typed  *)
(* at the interactive prompt are inputs of the action.                     *)
(***************************************************************************)
EXTENDS Integers, Sequences, FiniteSets, TLC

VARIABLES
    config,          \* Config: token, password, api_version
    api,             \* the adapter selected at startup (Api enum)
    proc,            \* "running", "panic" (aborted) or "exit" (process::exit)
    request_number,  \* Syspass.request_number: Cell<u8>
    PASSWORD,        \* the process-wide cached vault password
    INIT,            \* the Once flag guarding PASSWORD (v3 revision)
    prompts,         \* how many times ask_for_password was invoked
    usage,           \* the persisted usage store (usage.json)
    reqs,            \* requests the last operation handed to the transport
    last,            \* the last operation: its call and its outcome
    calls,           \* operations invoked so far
    sent,            \* requests this client handed to the transport so far
    overflow_checks, \* the build: TRUE when integer overflow panics (debug profile)
    run              \* the command main ran: its arguments, what it did, the exit code

vars == <<config, api, proc, request_number, PASSWORD, INIT, prompts, usage, reqs, last,
          calls, sent, overflow_checks, run>>

---------------------------------------------------------------------------
(* Bounds of the model *)

MaxId == 1        \* entity identifiers range over 0..MaxId
MaxCalls == 2     \* operations invoked in one run
MaxList == 3      \* accounts in one search reply (SpecSearch)
MaxAccountId == 3 \* account identifiers in a search reply range over 1..MaxAccountId
MaxCount == 2     \* usage counters range over 0..MaxCount

---------------------------------------------------------------------------
(* Option<T>: None is the empty tuple, Some(v) the one-element tuple *)

None == <<>>
Some(v) == <<v>>
IsSome(o) == Len(o) > 0
IsNone(o) == Len(o) = 0
Unwrap(o) == o[1]

\* the one element of a singleton.  Only({e : x \in {v}}) is e with x bound to
\* the value of v, which is computed once however often e mentions x
Only(S) == CHOOSE v \in S : TRUE

(* Result<T, Error> extended with the two ways an operation may not return *)
Ok(v) == [t |-> "Ok", err |-> "", val |-> v]
Err(m) == [t |-> "Err", err |-> m, val |-> None]
Panic(m) == [t |-> "Panic", err |-> m, val |-> None]
Exit == [t |-> "Exit", err |-> "", val |-> None]

IsOk(r) == r.t = "Ok"
IsErr(r) == r.t = "Err"
Returns(r) == r.t \in {"Ok", "Err"}

(* The mutable world an operation runs in, threaded through the operators *)
World == [rn |-> request_number, pw |-> PASSWORD, init |-> INIT,
          prompts |-> prompts, usage |-> usage, reqs |-> <<>>, proc |-> proc, log |-> <<>>,
          level |-> "Warn"]

(* What a command did, in order: an event and what it was about *)
Event(ev, x) == [ev |-> ev, x |-> x]
Log(w, ev, x) == [w EXCEPT !.log = Append(@, Event(ev, x))]

\* main.rs 134-146: --quiet turns the logger off (the model has neither
\* --debug nor --verbose); warn! and error! print unless it is off
set_max_level(w, quiet) == [w EXCEPT !.level = IF quiet THEN "Off" ELSE "Warn"]
log_warn(w, message) == IF w.level = "Off" THEN w ELSE Log(w, "warn", message)
log_error(w, message) == IF w.level = "Off" THEN w ELSE Log(w, "error", message)

(* A panic or a process::exit ends the process *)
Settle(w, r) ==
    [w |-> [w EXCEPT !.proc = IF r.t = "Panic" THEN "panic"
                              ELSE IF r.t = "Exit" THEN "exit" ELSE @],
     r |-> r]

---------------------------------------------------------------------------
(* Strings and numbers *)

Ids == 0..MaxId
ParseRange == 0..(MaxId + MaxAccountId)

\* u32::to_string
to_string(n) == ToString(n)

\* str::parse::<u32>: Some(n) for a decimal numeral, None otherwise
parse_u32(s) ==
    IF \E n \in ParseRange : ToString(n) = s
    THEN Some(CHOOSE n \in ParseRange : ToString(n) = s)
    ELSE None

\* serde_json::Value::to_string: a JSON string is rendered with its quotes
value_to_string(v) ==
    IF v.js = "str" THEN "\"" \o v.s \o "\"" ELSE ToString(v.n)

JStr(s) == [js |-> "str", s |-> s, n |-> 0]
JNum(n) == [js |-> "num", s |-> "", n |-> n]

---------------------------------------------------------------------------
(* The interactive prompt and the cached vault password *)

Cancel == "<cancel>"
PromptAnswers == {"typed-secret"}
PromptInputs == PromptAnswers \cup {Cancel}

\* prompt::ask_for_password(prompt, false): the required-value validator
\* admits no empty answer; a cancelled prompt ends the process.
ask_for_password(w, answer) ==
    LET w1 == [w EXCEPT !.prompts = @ + 1]
    IN IF answer = Cancel THEN Settle(w1, Exit) ELSE [w |-> w1, r |-> Ok(answer)]

\* a get_cached_password that does not keep what the prompt returned
get_cached_password_not_kept(w, answer) == ask_for_password(w, answer)

\* api/syspass.rs get_cached_password, thread_local revision (used by v2)
get_cached_password(w, answer) ==
    IF w.pw = ""
    THEN Only({IF IsOk(a.r)
               THEN [w |-> [a.w EXCEPT !.pw = a.r.val], r |-> Ok(a.r.val)]
               ELSE a
               : a \in {ask_for_password(w, answer)}})
    ELSE [w |-> w, r |-> Ok(w.pw)]

\* api/syspass.rs get_cached_password, Once revision (used by v3)
get_cached_password_once(w, answer) ==
    IF ~w.init
    THEN Only({IF IsOk(a.r)
               THEN [w |-> [a.w EXCEPT !.pw = a.r.val, !.init = TRUE], r |-> Ok(a.r.val)]
               ELSE a
               : a \in {ask_for_password(w, answer)}})
    ELSE [w |-> w, r |-> Ok(w.pw)]

---------------------------------------------------------------------------
(* Request parameters: a HashMap<String, String> is a function on its keys *)

Insert(m, k, v) == [x \in (DOMAIN m) \cup {k} |-> IF x = k THEN v ELSE m[x]]

RECURSIVE insert_args(_, _)
\* the loop over args: pairs with an empty key or an empty value are skipped
insert_args(m, args) ==
    IF args = <<>> THEN m
    ELSE LET arg == Head(args)
         IN insert_args(IF arg[1] # "" /\ arg[2] # "" THEN Insert(m, arg[1], arg[2]) ELSE m,
                        Tail(args))

\* the part of get_params / add_request_args after the password is known:
\* args is an Option<Vec<(&str, String)>>
build_params(token, password, args) ==
    LET base == [k \in {"authToken"} |-> token]
        withPass == IF IsSome(password) THEN Insert(base, "tokenPass", Unwrap(password)) ELSE base
    IN IF IsSome(args) THEN insert_args(withPass, Unwrap(args)) ELSE withPass

\* a get_params that adds the vault password to every request
get_params_always_secret(w, args, needs_password, answer) ==
    IF TRUE
    THEN IF config.password # ""
         THEN [w |-> w, r |-> Ok(build_params(config.token, Some(config.password), args))]
         ELSE Only({IF IsOk(c.r)
                    THEN [w |-> c.w, r |-> Ok(build_params(config.token, Some(c.r.val), args))]
                    ELSE c
                    : c \in {get_cached_password(w, answer)}})
    ELSE [w |-> w, r |-> Ok(build_params(config.token, None, args))]

\* api/syspass.rs Syspass::get_params (v2)
get_params(w, args, needs_password, answer) ==
    IF needs_password
    THEN IF config.password # ""
         THEN [w |-> w, r |-> Ok(build_params(config.token, Some(config.password), args))]
         ELSE Only({IF IsOk(c.r)
                    THEN [w |-> c.w, r |-> Ok(build_params(config.token, Some(c.r.val), args))]
                    ELSE c
                    : c \in {get_cached_password(w, answer)}})
    ELSE [w |-> w, r |-> Ok(build_params(config.token, None, args))]

\* api/syspass.rs add_request_args (v3)
add_request_args(w, args, needs_password, answer) ==
    IF needs_password
    THEN IF config.password # ""
         THEN [w |-> w, r |-> Ok(build_params(config.token, Some(config.password), args))]
         ELSE Only({IF IsOk(c.r)
                    THEN [w |-> c.w, r |-> Ok(build_params(config.token, Some(c.r.val), args))]
                    ELSE c
                    : c \in {get_cached_password_once(w, answer)}})
    ELSE [w |-> w, r |-> Ok(build_params(config.token, None, args))]

JsonReq(method, params, id) ==
    [jsonrpc |-> "2.0", method |-> method, params |-> params, id |-> id]

HasParam(req, k) == k \in DOMAIN req.params

---------------------------------------------------------------------------
(* The shared entity model (api/account.rs, api/client.rs, api/category.rs) *)

Account(id, pass) ==
    [id |-> id, name |-> "acc", login |-> "user", url |-> Some("example.org"),
     notes |-> None, category_id |-> 1, client_id |-> 1, pass |-> pass,
     client_name |-> None]

Client(id) == [id |-> id, name |-> "cli", description |-> "", is_global |-> 0]

Category(id) == [id |-> id, name |-> "cat", description |-> None]

\* a set_id that leaves the entity as the response body described it
set_id_dropped(entity, id) == entity

\* Entity::set_id
set_id(entity, id) == [entity EXCEPT !.id = Some(id)]

\* Option<&str>::unwrap_or_default
unwrap_or_default(o) == IF IsSome(o) THEN Unwrap(o) ELSE ""

---------------------------------------------------------------------------
(* Server replies.  A reply is a connection failure or an HTTP response     *)
(* with a status and a body; a body is either not JSON or a JSON-RPC        *)
(* envelope of which the model keeps the members the decoders look at.      *)

\* a JSON value found under "result"
JNull ==
    [t |-> "null", itemId |-> None, resultCode |-> None, result |-> None,
     pass |-> None, acct |-> None, list |-> <<>>, members |-> <<>>]
JObject == [JNull EXCEPT !.t = "obj"]
JArray(list) == [JNull EXCEPT !.t = "array", !.list = list]

\* the payload under result.result of a v3 envelope
PNull == [t |-> "null", list |-> <<>>, fits |-> {}, id |-> None, pass |-> None, password |-> None]
PAccounts(list) == [PNull EXCEPT !.t = "accounts", !.list = list]
PEntity(fits, id, pass) == [PNull EXCEPT !.t = "entity", !.fits = fits, !.id = id, !.pass = pass]
PPassword(password) == [PNull EXCEPT !.t = "password", !.password = password]

\* {"error": {"code": .., "message": ..}}
JError(hasCode, message) == [code |-> hasCode, message |-> message]

NonJson == [json |-> FALSE, id |-> FALSE, jsonrpc |-> FALSE, result |-> None, error |-> None]
Envelope(result, error) ==
    [json |-> TRUE, id |-> TRUE, jsonrpc |-> TRUE, result |-> result, error |-> error]
\* a JSON object without the "id" and "jsonrpc" members
Bare(result, error) ==
    [json |-> TRUE, id |-> FALSE, jsonrpc |-> FALSE, result |-> result, error |-> error]

ConnError == [net |-> "connerr", status |-> 0, body |-> NonJson]
Http(status, body) == [net |-> "http", status |-> status, body |-> body]

\* http::StatusCode::is_success
is_success(status) == status >= 200 /\ status < 300

\* Display of http::StatusCode: the code and its canonical reason
status_text(status) ==
    ToString(status) \o " " \o
        (CASE status = 200 -> "OK"
           [] status = 201 -> "Created"
           [] status = 400 -> "Bad Request"
           [] status = 403 -> "Forbidden"
           [] status = 404 -> "Not Found"
           [] status = 500 -> "Internal Server Error"
           [] OTHER -> "<unknown status code>")

CONNECT_ERROR == "error sending request"
NOT_JSON == "Server response did not contain JSON"
NO_VARIANT == "data did not match any variant of untagged enum ApiResponseResult"
BAD_SCHEMA == "invalid type or missing field"

responded_with_code(status) == "Server responded with code " \o status_text(status)

---------------------------------------------------------------------------
(* Transport of the legacy adapter: api/syspass.rs (Result-returning) *)

\* get_response: the body is handed on only for a success status
get_response(reply) ==
    IF reply.net = "connerr" THEN Err(CONNECT_ERROR)
    ELSE IF is_success(reply.status) THEN Ok(reply.body)
    ELSE Err(responded_with_code(reply.status))

\* serde: does the "error" member fit v2::ApiErrorResponse {code, message}
V2ErrorFits(body) ==
    IsNone(body.error) \/ (Unwrap(body.error).code /\ IsSome(Unwrap(body.error).message))

\* serde: does "result" fit v2::ApiResult {itemId: Option<String>, resultCode: i32}
V2ResultFits(body) ==
    \/ IsNone(body.result)
    \/ Unwrap(body.result).t = "null"
    \/ /\ Unwrap(body.result).t = "obj"
       /\ IsSome(Unwrap(body.result).resultCode)
       /\ \/ IsNone(Unwrap(body.result).itemId)
          \/ Unwrap(Unwrap(body.result).itemId).js = "str"

\* v2::ApiResponse {result: Option<ApiResult>, error: Option<ApiErrorResponse>}
FitsCode(body) == V2ResultFits(body) /\ V2ErrorFits(body)

\* v2::ApiResponseEntity {id: u8, jsonrpc: String, result: Value, error: Option<..>}
FitsEntity(body) == body.id /\ body.jsonrpc /\ IsSome(body.result) /\ V2ErrorFits(body)

ErrorMessage(body) ==
    IF IsSome(body.error) THEN Some(Unwrap(Unwrap(body.error).message)) ELSE None

DecodeCode(body) ==
    [variant |-> "Code",
     result |-> IF IsNone(body.result) \/ Unwrap(body.result).t = "null" THEN None
                ELSE Some([item_id |-> IF IsSome(Unwrap(body.result).itemId)
                                       THEN Some(Unwrap(Unwrap(body.result).itemId).s)
                                       ELSE None,
                           result_code |-> Unwrap(Unwrap(body.result).resultCode)]),
     error |-> ErrorMessage(body)]

DecodeEntity(body) ==
    [variant |-> "Entity", result |-> Unwrap(body.result), error |-> ErrorMessage(body)]

\* #[serde(untagged)] enum ApiResponseResult { Code(..), Entity(..) }:
\* the variants are tried in declaration order
DecodeApiResponseResult(body) ==
    IF FitsCode(body) THEN Ok(DecodeCode(body))
    ELSE IF FitsEntity(body) THEN Ok(DecodeEntity(body))
    ELSE Err(NO_VARIANT)

\* a send_request that reads a body that is not JSON as null
send_request_null_body(reply) ==
    LET got == get_response(reply)
    IN IF IsOk(got)
       THEN IF ~got.val.json THEN Err(NO_VARIANT) ELSE DecodeApiResponseResult(got.val)
       ELSE got

\* Syspass::send_request::<ApiResponseResult>
send_request(reply) ==
    LET got == get_response(reply)
    IN IF IsOk(got)
       THEN IF ~got.val.json THEN Err(NOT_JSON) ELSE DecodeApiResponseResult(got.val)
       ELSE got

\* u8::MAX
U8_MAX == 255

\* a counter that is left as it was
next_request_number_stuck(n) == Ok(n)

\* request_number.get() + 1 on a u8: on 255 a build with overflow checks
\* panics, a build without them wraps to 0
next_request_number(n) ==
    IF n < U8_MAX THEN Ok(n + 1)
    ELSE IF overflow_checks THEN Panic("attempt to add with overflow")
    ELSE Ok(0)

\* a forge_and_send that sends the request a second time when the first
\* attempt got no connection
V2_forge_and_send_retry(w, method, args, needs_password, answer, reply) ==
    Only({IF ~IsOk(p.r) THEN p
          ELSE LET req == JsonReq(method, p.r.val, p.w.rn)
                   posted == [p.w EXCEPT !.reqs = IF reply.net = "connerr"
                                                  THEN Append(Append(@, req), req)
                                                  ELSE Append(@, req)]
               IN IF ~IsOk(n) THEN Settle(posted, n)
                  ELSE [w |-> [posted EXCEPT !.rn = n.val], r |-> send_request(reply)]
          : p \in {get_params(w, args, needs_password, answer)},
            n \in {next_request_number(w.rn)}})

\* v2::Syspass::forge_and_send
V2_forge_and_send(w, method, args, needs_password, answer, reply) ==
    Only({IF ~IsOk(p.r) THEN p
          ELSE LET posted == [p.w EXCEPT !.reqs = Append(@, JsonReq(method, p.r.val, p.w.rn))]
               IN IF ~IsOk(n) THEN Settle(posted, n)
                  ELSE [w |-> [posted EXCEPT !.rn = n.val], r |-> send_request(reply)]
          : p \in {get_params(w, args, needs_password, answer)},
            n \in {next_request_number(w.rn)}})

---------------------------------------------------------------------------
(* The usage store (config.rs) and the ranking of search results *)

\* usage.json: absent, absent where it cannot be created, unreadable, not a
\* counter map, or a counter map
UsageMissing == [kind |-> "missing", map |-> <<>>]
UsageNoDir == [kind |-> "nodir", map |-> <<>>]
UsageUnreadable == [kind |-> "unreadable", map |-> <<>>]
UsageInvalid == [kind |-> "invalid", map |-> <<>>]
UsageMap(m) == [kind |-> "map", map |-> m]

\* HashMap::from([(0, 0)])
DefaultUsage == (0 :> 0)

\* HashMap::get(id).unwrap_or(&0)
usage_of(usage_data, id) == IF id \in DOMAIN usage_data THEN usage_data[id] ELSE 0

\* a usage store that is never written: an absent usage.json stays absent
get_usage_data_in_memory(w) ==
    CASE w.usage.kind = "missing" -> [w |-> w, r |-> Ok(DefaultUsage)]
      [] w.usage.kind = "nodir" -> Settle(w, Panic("Failed to write data"))
      [] w.usage.kind = "unreadable" -> Settle(w, Panic("Couldn't read config file"))
      [] w.usage.kind = "invalid" -> Settle(w, Panic("JSON does not have correct format."))
      [] OTHER -> [w |-> w, r |-> Ok(w.usage.map)]

\* Config::get_usage_data with get_config_file_or_write("usage.json", {0: 0}):
\* a missing file is created with the default content
get_usage_data(w) ==
    CASE w.usage.kind = "missing" ->
            [w |-> [Log(w, "usage_read", 0) EXCEPT !.usage = UsageMap(DefaultUsage)],
             r |-> Ok(DefaultUsage)]
      [] w.usage.kind = "nodir" -> Settle(Log(w, "usage_read", 0), Panic("Failed to write data"))
      [] w.usage.kind = "unreadable" ->
            Settle(Log(w, "usage_read", 0), Panic("Couldn't read config file"))
      [] w.usage.kind = "invalid" ->
            Settle(Log(w, "usage_read", 0), Panic("JSON does not have correct format."))
      [] OTHER -> [w |-> Log(w, "usage_read", 0), r |-> Ok(w.usage.map)]

\* A u32 counter is written as the integer with the same 32-bit pattern, so
\* the largest one, u32::MAX = 4294967295, is written -1.
U32_MAX == -1

\* `*count += 1` on a u32: past u32::MAX a build with overflow checks panics,
\* a build without them wraps to 0
add_one(count) ==
    IF count # U32_MAX THEN Ok(count + 1)
    ELSE IF overflow_checks THEN Panic("attempt to add with overflow")
    ELSE Ok(0)

\* HashMap::insert / get_mut: the map with the counter of id set to count
with_counter(usage_data, id, count) ==
    [k \in DOMAIN usage_data \cup {id} |-> IF k = id THEN count ELSE usage_data[k]]

\* Config::record_usage: read the store, add 1 to the counter of id (1 when
\* it has none), write the store back
record_usage(w, id) ==
    Only({IF ~IsOk(u.r) THEN u
          ELSE IF ~IsOk(count) THEN Settle(u.w, count)
          ELSE [w |-> [Log(u.w, "usage_write", id)
                          EXCEPT !.usage = UsageMap(with_counter(u.r.val, id, count.val))],
                r |-> Ok(None)]
          : u \in {get_usage_data(w)},
            count \in {Only({IF IsOk(v.r) /\ id \in DOMAIN v.r.val
                              THEN add_one(v.r.val[id]) ELSE Ok(1)
                              : v \in {get_usage_data(w)}})}})

\* a comparator with the counters the wrong way round (left.cmp(right))
compare_accounts_ascending(a, b, usage_data) ==
    LET left == usage_of(usage_data, Unwrap(a.id))
        right == usage_of(usage_data, Unwrap(b.id))
    IN IF left = 0 /\ right = 0
       THEN (IF Unwrap(a.id) < Unwrap(b.id) THEN "Less"
             ELSE IF Unwrap(a.id) > Unwrap(b.id) THEN "Greater" ELSE "Equal")
       ELSE (IF left < right THEN "Less"
             ELSE IF left > right THEN "Greater" ELSE "Equal")

\* the comparator of sort_accounts: Ordering of a relative to b
compare_accounts(a, b, usage_data) ==
    LET left == usage_of(usage_data, Unwrap(a.id))
        right == usage_of(usage_data, Unwrap(b.id))
    IN IF left = 0 /\ right = 0
       THEN (IF Unwrap(a.id) < Unwrap(b.id) THEN "Less"
             ELSE IF Unwrap(a.id) > Unwrap(b.id) THEN "Greater" ELSE "Equal")
       ELSE (IF right < left THEN "Less"
             ELSE IF right > left THEN "Greater" ELSE "Equal")

RECURSIVE insert_sorted_before_equals(_, _, _)
\* an insertion that puts x before the elements it compares equal to
insert_sorted_before_equals(sorted, x, usage_data) ==
    IF sorted = <<>> THEN <<x>>
    ELSE IF compare_accounts(x, Head(sorted), usage_data) # "Greater"
         THEN <<x>> \o sorted
         ELSE <<Head(sorted)>> \o insert_sorted_before_equals(Tail(sorted), x, usage_data)

RECURSIVE insert_sorted(_, _, _)
\* stable insertion: x goes after every element it does not precede
insert_sorted(sorted, x, usage_data) ==
    IF sorted = <<>> THEN <<x>>
    ELSE IF compare_accounts(x, Head(sorted), usage_data) = "Less"
         THEN <<x>> \o sorted
         ELSE <<Head(sorted)>> \o insert_sorted(Tail(sorted), x, usage_data)

RECURSIVE stable_sort(_, _)
stable_sort(list, usage_data) ==
    IF list = <<>> THEN <<>>
    ELSE Only({insert_sorted(sorted, list[Len(list)], usage_data)
               : sorted \in {stable_sort(SubSeq(list, 1, Len(list) - 1), usage_data)}})

\* sort_accounts: slice::sort_by is stable; the comparator (and its
\* expect("Id is set")) runs only when there are two elements to compare
sort_accounts(list, usage_data) ==
    IF Len(list) >= 2 /\ \E i \in 1..Len(list) : IsNone(list[i].id)
    THEN Panic("Id is set")
    ELSE Ok(stable_sort(list, usage_data))

\* a ranking that reads the usage store even when ranking is disabled
rank_accounts_always(w, list, use_usage) ==
    Only({IF ~IsOk(u.r) THEN u
          ELSE Settle(u.w, sort_accounts(l, u.r.val))
          : u \in {get_usage_data(w)}, l \in {list}})

\* the tail of search_account shared by both adapters: read the usage data
\* when ranking is on, sort, return the list
rank_accounts(w, list, use_usage) ==
    Only({IF ~IsOk(u.r) THEN u
          ELSE Settle(u.w, sort_accounts(l, u.r.val))
          : u \in {IF use_usage THEN get_usage_data(w) ELSE [w |-> w, r |-> Ok(DefaultUsage)]},
            l \in {list}})

---------------------------------------------------------------------------
(* The legacy adapter: api/syspass/v2.rs *)

NOT_SUPPORTED == "Syspass does not support this"

\* the wire structs v2::Account, v2::Client, v2::Category as found in a reply:
\* the identifier and the password as sent (None: member missing), and
\* whether the other required members are there
V2Account(account_id, account_pass, wf) ==
    [account_id |-> account_id, account_pass |-> account_pass, wf |-> wf]
V2Item(key, item_id, wf) == [key |-> key, item_id |-> item_id, wf |-> wf]

\* serde: does the value fit v2::Account
FitsV2Account(a) == IsSome(a.account_id) /\ IsSome(a.account_pass) /\ a.wf

\* impl From<Account> for api::account::Account
V2_account_from(a) ==
    LET id == parse_u32(Unwrap(a.account_id))
    IN IF IsNone(id) THEN Panic("Account id is required")
       ELSE Ok(Account(Some(Unwrap(id)), Some(Unwrap(a.account_pass))))

RECURSIVE V2_convert_list(_)
\* for account in convert_list { list.push(Account::from(account)) }
V2_convert_list(list) ==
    IF list = <<>> THEN Ok(<<>>)
    ELSE Only({IF ~IsOk(first) THEN first
               ELSE IF ~IsOk(rest) THEN rest
               ELSE Ok(<<first.val>> \o rest.val)
               : first \in {V2_account_from(Head(list))}, rest \in {V2_convert_list(Tail(list))}})

\* v2::Syspass::delete_request
V2_delete_request(w, method, id, reply) ==
    Only({IF ~IsOk(s.r) THEN s
          ELSE IF s.r.val.variant = "Code"
               THEN IF IsSome(s.r.val.error) THEN [w |-> s.w, r |-> Err(Unwrap(s.r.val.error))]
                    ELSE IF IsNone(s.r.val.result) THEN Settle(s.w, Panic("Invalid response"))
                    ELSE [w |-> s.w, r |-> Ok(Unwrap(s.r.val.result).result_code = 0)]
               ELSE [w |-> s.w, r |-> Err("Save failed")]
          : s \in {V2_forge_and_send(w, method, Some(<<<<"id", to_string(id)>>>>), FALSE,
                                     Cancel, reply)}})

\* the identifier a Code response of save carries
V2_code_item_id(code) ==
    IF IsNone(code.result) THEN Panic("Invalid response")
    ELSE IF IsNone(Unwrap(code.result).item_id) THEN Panic("Entity was not created")
    ELSE LET id == parse_u32(Unwrap(Unwrap(code.result).item_id))
         IN IF IsNone(id) THEN Panic("Invalid id") ELSE Ok(Unwrap(id))

\* the identifier an Entity response of save carries:
\* result.get("itemId").expect(..).to_string().parse::<u32>().expect(..)
V2_entity_item_id(entity) ==
    IF entity.result.t # "obj" \/ IsNone(entity.result.itemId) THEN Panic("No password set")
    ELSE LET id == parse_u32(value_to_string(Unwrap(entity.result.itemId)))
         IN IF IsNone(id) THEN Panic("Invalid id") ELSE Ok(Unwrap(id))

\* a save that looks at the identifier only after the request has gone out
V2_save_sends_first(w, path, id, args, answer, reply) ==
    Only({IF ~IsOk(s.r) THEN s
          ELSE IF IsSome(id) /\ Unwrap(id) > 0 THEN [w |-> s.w, r |-> Err(NOT_SUPPORTED)]
          ELSE IF IsSome(s.r.val.error) THEN [w |-> s.w, r |-> Err(Unwrap(s.r.val.error))]
          ELSE IF s.r.val.variant = "Code" THEN Settle(s.w, V2_code_item_id(s.r.val))
          ELSE Settle(s.w, V2_entity_item_id(s.r.val))
          : s \in {V2_forge_and_send(w, path, args, TRUE, answer, reply)}})

\* v2::Syspass::save: returns the identifier of the created entity
V2_save(w, path, id, args, answer, reply) ==
    IF IsSome(id) /\ Unwrap(id) > 0 THEN [w |-> w, r |-> Err(NOT_SUPPORTED)]
    ELSE Only({IF ~IsOk(s.r) THEN s
               ELSE IF IsSome(s.r.val.error) THEN [w |-> s.w, r |-> Err(Unwrap(s.r.val.error))]
               ELSE IF s.r.val.variant = "Code" THEN Settle(s.w, V2_code_item_id(s.r.val))
               ELSE Settle(s.w, V2_entity_item_id(s.r.val))
               : s \in {V2_forge_and_send(w, path, args, TRUE, answer, reply)}})

\* {response:?} of an ApiResponseResult::Code: the derived Debug output shows
\* the result and the error, with the server's message
debug_code(code) ==
    "Code(ApiResponse { result: "
    \o (IF IsSome(code.result)
        THEN "Some(ApiResult { result_code: " \o ToString(Unwrap(code.result).result_code) \o " })"
        ELSE "None")
    \o ", error: "
    \o (IF IsSome(code.error)
        THEN "Some(ApiErrorResponse { message: \"" \o Unwrap(code.error) \o "\" })"
        ELSE "None")
    \o " })"

\* v2 search_account
V2_search_account(w, search, use_usage, reply) ==
    Only({IF ~IsOk(s.r) THEN s
          ELSE IF s.r.val.variant = "Entity"
               THEN IF s.r.val.result.t # "array"
                       \/ \E i \in 1..Len(s.r.val.result.list) :
                             ~FitsV2Account(s.r.val.result.list[i])
                    THEN Settle(s.w, Panic("Invalid response"))
                    ELSE Only({IF ~IsOk(list) THEN Settle(s.w, list)
                               ELSE rank_accounts(s.w, list.val, use_usage)
                               : list \in {V2_convert_list(s.r.val.result.list)}})
               ELSE [w |-> s.w, r |-> Err("Invalid response: " \o debug_code(s.r.val))]
          : s \in {V2_forge_and_send(w, "getAccountSearch", Some(search), FALSE, Cancel,
                                     reply)}})

\* v2 get_password: the value is a ViewPassword
V2_get_password(w, account, answer, reply) ==
    IF IsNone(account.id) THEN Settle(w, Panic("Should not be empty"))
    ELSE Only({IF ~IsOk(s.r) THEN s
               ELSE IF s.r.val.variant = "Entity"
                    THEN IF s.r.val.result.t # "obj" \/ IsNone(s.r.val.result.pass)
                         THEN Settle(s.w, Panic("No password set"))
                         ELSE [w |-> s.w,
                               r |-> Ok([account |-> account,
                                         password |-> Unwrap(s.r.val.result.pass)])]
                    ELSE [w |-> s.w, r |-> Err("Invalid response " \o debug_code(s.r.val))]
               : s \in {V2_forge_and_send(w, "getAccountPassword",
                                          Some(<<<<"id", to_string(Unwrap(account.id))>>>>),
                                          TRUE, answer, reply)}})

\* v2 view_account
V2_view_account(w, id, answer, reply) ==
    Only({IF ~IsOk(s.r) THEN s
          ELSE IF s.r.val.variant = "Entity"
               THEN IF s.r.val.result.t # "obj" \/ IsNone(s.r.val.result.acct)
                       \/ ~FitsV2Account(Unwrap(s.r.val.result.acct))
                    THEN [w |-> s.w, r |-> Err("missing field: Could not get account data")]
                    ELSE Settle(s.w, V2_account_from(Unwrap(s.r.val.result.acct)))
               ELSE [w |-> s.w, r |-> Err("Invalid response: " \o debug_code(s.r.val))]
          : s \in {V2_forge_and_send(w, "getAccountData", Some(<<<<"id", to_string(id)>>>>),
                                     TRUE, answer, reply)}})

\* v2 save_client
V2_save_client(w, client, answer, reply) ==
    Only({IF IsOk(id.r)
          THEN [w |-> id.w, r |-> Ok([Client(Some(id.r.val)) EXCEPT !.name = client.name,
                                          !.description = client.description])]
          ELSE id
          : id \in {V2_save(w, "addCustomer", client.id,
                            Some(<<<<"name", client.name>>,
                                   <<"description", client.description>>>>),
                            answer, reply)}})

\* v2 save_category
V2_save_category(w, category, answer, reply) ==
    Only({IF IsOk(id.r)
          THEN [w |-> id.w,
                r |-> Ok([Category(Some(id.r.val)) EXCEPT !.name = category.name,
                              !.description = Some(unwrap_or_default(category.description))])]
          ELSE id
          : id \in {V2_save(w, "addCategory", category.id,
                            Some(<<<<"name", category.name>>,
                                   <<"description", unwrap_or_default(category.description)>>>>),
                            answer, reply)}})

\* a save_account that reads the account back whether or not it was added
V2_save_account_always_reads(w, account, answer, reply, answer2, reply2) ==
    IF IsNone(account.pass) THEN Settle(w, Panic("Password given"))
    ELSE Only({IF IsOk(id.r) THEN V2_view_account(id.w, id.r.val, answer2, reply2)
               ELSE IF IsErr(id.r) /\ Len(id.w.reqs) > Len(w.reqs)
               THEN V2_view_account(id.w, 0, answer2, reply2)
               ELSE id
               : id \in {V2_save(w, "addAccount", account.id,
                                 Some(<<<<"name", account.name>>,
                                        <<"categoryId", to_string(account.category_id)>>,
                                        <<"customerId", to_string(account.client_id)>>,
                                        <<"pass", Unwrap(account.pass)>>,
                                        <<"login", account.login>>,
                                        <<"url", unwrap_or_default(account.url)>>,
                                        <<"notes", unwrap_or_default(account.notes)>>>>),
                                 answer, reply)}})

\* v2 save_account: the arguments (and account.pass().expect(..)) are
\* evaluated before save is entered; a created account is read back
V2_save_account(w, account, answer, reply, answer2, reply2) ==
    IF IsNone(account.pass) THEN Settle(w, Panic("Password given"))
    ELSE Only({IF IsOk(id.r) THEN V2_view_account(id.w, id.r.val, answer2, reply2)
               ELSE id
               : id \in {V2_save(w, "addAccount", account.id,
                                 Some(<<<<"name", account.name>>,
                                        <<"categoryId", to_string(account.category_id)>>,
                                        <<"customerId", to_string(account.client_id)>>,
                                        <<"pass", Unwrap(account.pass)>>,
                                        <<"login", account.login>>,
                                        <<"url", unwrap_or_default(account.url)>>,
                                        <<"notes", unwrap_or_default(account.notes)>>>>),
                                 answer, reply)}})

\* an unsupported operation that is forwarded to the server all the same
V2_unsupported_forwarded(w) ==
    V2_forge_and_send(w, "getCategoryData", None, FALSE, Cancel, ConnError)

\* v2 change_password, get_category, get_client
V2_unsupported(w) == [w |-> w, r |-> Err(NOT_SUPPORTED)]


RECURSIVE insert_by_id(_, _)
\* Option<&u32> ordering: None sorts before every Some
id_less(a, b) ==
    IF IsNone(a.id) THEN IsSome(b.id)
    ELSE IsSome(b.id) /\ Unwrap(a.id) < Unwrap(b.id)
insert_by_id(sorted, x) ==
    IF sorted = <<>> THEN <<x>>
    ELSE IF id_less(x, Head(sorted)) THEN <<x>> \o sorted
         ELSE <<Head(sorted)>> \o insert_by_id(Tail(sorted), x)

RECURSIVE sort_by_id(_)
\* list.sort_by(|a, b| a.id().cmp(&b.id())), a stable sort
sort_by_id(list) ==
    IF list = <<>> THEN <<>>
    ELSE Only({insert_by_id(sorted, list[Len(list)])
               : sorted \in {sort_by_id(SubSeq(list, 1, Len(list) - 1))}})

\* a fix_result_object without the filter: every member is decoded
V2_filter_keys_all(members) == members

RECURSIVE V2_filter_keys(_)
\* the filter of fix_result_object: members whose key parses as u32
V2_filter_keys(members) ==
    IF members = <<>> THEN <<>>
    ELSE (IF IsSome(parse_u32(Head(members).key)) THEN <<Head(members)>> ELSE <<>>)
         \o V2_filter_keys(Tail(members))

\* v2::Syspass::fix_result_object: the wire structs of the kept members
V2_fix_result_object(result) ==
    IF result.t # "obj" THEN Panic("Failed to map result")
    ELSE Only({IF \E i \in 1..Len(kept) : ~(kept[i].wf /\ IsSome(kept[i].item_id))
               THEN Panic("Failed to convert entity list")
               ELSE Ok(kept)
               : kept \in {V2_filter_keys(result.members)}})

\* impl From<Client> / From<Category>: the identifier string must be numeric
V2_item_from(kind, item) ==
    LET id == parse_u32(Unwrap(item.item_id))
    IN IF IsNone(id)
       THEN Panic(IF kind = "client" THEN "Customer id is required" ELSE "Category id is required")
       ELSE Ok(IF kind = "client" THEN Client(Some(Unwrap(id))) ELSE Category(Some(Unwrap(id))))

RECURSIVE V2_convert_items(_, _)
V2_convert_items(kind, items) ==
    IF items = <<>> THEN Ok(<<>>)
    ELSE Only({IF ~IsOk(first) THEN first
               ELSE IF ~IsOk(rest) THEN rest
               ELSE Ok(<<first.val>> \o rest.val)
               : first \in {V2_item_from(kind, Head(items))},
                 rest \in {V2_convert_items(kind, Tail(items))}})

\* v2 get_clients (kind "client", getCustomers) and get_categories
V2_get_list(w, kind, reply) ==
    Only({IF ~IsOk(s.r) THEN s
          ELSE IF s.r.val.variant = "Entity"
               THEN Only({IF ~IsOk(fixed) THEN Settle(s.w, fixed)
                          ELSE Only({IF ~IsOk(list) THEN Settle(s.w, list)
                                     ELSE [w |-> s.w, r |-> Ok(sort_by_id(list.val))]
                                     : list \in {V2_convert_items(kind, fixed.val)}})
                          : fixed \in {V2_fix_result_object(s.r.val.result)}})
               ELSE [w |-> s.w, r |-> Ok(<<>>)]
          : s \in {V2_forge_and_send(w, IF kind = "client" THEN "getCustomers"
                                        ELSE "getCategories",
                                     None, FALSE, Cancel, reply)}})

---------------------------------------------------------------------------
(* Transport of the current adapter: v3.rs on the panicking get_response *)

\* serde: v3::ApiErrorResponse {message}
V3ErrorFits(body) == IsNone(body.error) \/ IsSome(Unwrap(body.error).message)

\* serde: v3::ApiResult {itemId: Option<u32>, result: Value, resultCode: i32}
V3ResultFits(body) ==
    \/ IsNone(body.result)
    \/ Unwrap(body.result).t = "null"
    \/ /\ Unwrap(body.result).t = "obj"
       /\ IsSome(Unwrap(body.result).resultCode)
       /\ IsSome(Unwrap(body.result).result)
       /\ \/ IsNone(Unwrap(body.result).itemId)
          \/ Unwrap(Unwrap(body.result).itemId).js = "num"

DecodeV3(body) ==
    [result |-> IF IsNone(body.result) \/ Unwrap(body.result).t = "null" THEN None
                ELSE Some([item_id |-> IF IsSome(Unwrap(body.result).itemId)
                                       THEN Some(Unwrap(Unwrap(body.result).itemId).n)
                                       ELSE None,
                           result |-> Unwrap(Unwrap(body.result).result),
                           result_code |-> Unwrap(Unwrap(body.result).resultCode)]),
     error |-> ErrorMessage(body)]

\* a get_response that hands the body on whatever the status
get_response_any_status(reply) ==
    IF reply.net = "connerr" THEN Panic("Error: " \o CONNECT_ERROR) ELSE Ok(reply.body)

\* get_response of the revision v3.rs is written against: it panics on a
\* connection failure and on a non-success status
get_response_or_panic(reply) ==
    IF reply.net = "connerr" THEN Panic("Error: " \o CONNECT_ERROR)
    ELSE IF is_success(reply.status) THEN Ok(reply.body)
    ELSE Panic("Error: " \o responded_with_code(reply.status))

\* v3::Syspass::send_request
V3_send_request(reply) ==
    LET got == get_response_or_panic(reply)
    IN IF ~IsOk(got) THEN got
       ELSE IF ~got.val.json THEN Panic(NOT_JSON)
       ELSE IF V3ResultFits(got.val) /\ V3ErrorFits(got.val) THEN Ok(DecodeV3(got.val))
       ELSE Err(BAD_SCHEMA)

\* v3::Syspass::forge_and_send: the value is the ApiResult
V3_forge_and_send(w, method, args, needs_password, answer, reply) ==
    Only({IF ~IsOk(p.r) THEN p
          ELSE LET posted == [p.w EXCEPT !.reqs = Append(@, JsonReq(method, p.r.val, p.w.rn))]
                   w2 == [posted EXCEPT !.rn = n.val]
               IN IF response.t = "Panic" THEN Settle(posted, response)
                  ELSE IF ~IsOk(n) THEN Settle(posted, n)
                  ELSE IF IsErr(response) THEN [w |-> w2, r |-> response]
                  ELSE IF IsSome(response.val.result)
                       THEN [w |-> w2, r |-> Ok(Unwrap(response.val.result))]
                  ELSE IF IsNone(response.val.error) THEN Settle(w2, Panic("Invalid response"))
                  ELSE [w |-> w2, r |-> Err(Unwrap(response.val.error))]
          : p \in {add_request_args(w, args, needs_password, answer)},
            response \in {V3_send_request(reply)},
            n \in {next_request_number(w.rn)}})

---------------------------------------------------------------------------
(* The current adapter: api/syspass/v3.rs *)

CREATE == "create"
EDIT == "edit"

\* a create_or_edit that takes every identifier present, 0 included, for an edit
create_or_edit_zero_edits(id) == IF IsSome(id) THEN EDIT ELSE CREATE

\* v3::Syspass::create_or_edit
create_or_edit(id) ==
    IF IsSome(id)
    THEN (IF Unwrap(id) = 0 THEN CREATE ELSE EDIT)
    ELSE CREATE

\* the wire form of an account in a v3 list
V3Account(id, pass, wf) == [id |-> id, pass |-> pass, wf |-> wf]
V3Item(id, wf) == [id |-> id, wf |-> wf]
PItems(list) == [PNull EXCEPT !.t = "items", !.list = list]

\* serde_json::from_value::<T>(payload) for an entity T
V3_entity_from(kind, payload) ==
    IF payload.t = "entity" /\ kind \in payload.fits
    THEN Ok(CASE kind = "account" -> Account(payload.id, payload.pass)
              [] kind = "client" -> Client(payload.id)
              [] OTHER -> Category(payload.id))
    ELSE Panic("called Result::unwrap on an Err value")

\* v3::Syspass::save
V3_save(w, path, id, args, answer, reply) ==
    LET verb == create_or_edit(id)
        method == path \o "/" \o verb
        args2 == IF verb = EDIT
                 THEN (IF IsSome(args)
                       THEN Some(Append(Unwrap(args), <<"id", to_string(Unwrap(id))>>))
                       ELSE None)
                 ELSE args
    IN Only({IF ~IsOk(s.r) THEN s
             ELSE Only({IF ~IsOk(entity) THEN Settle(s.w, entity)
                        ELSE IF IsNone(s.r.val.item_id)
                             THEN Settle(s.w, Panic("Id should be set"))
                        ELSE [w |-> s.w, r |-> Ok(set_id(entity.val, Unwrap(s.r.val.item_id)))]
                        : entity \in {V3_entity_from(path, s.r.val.result)}})
             : s \in {V3_forge_and_send(w, method, args2, TRUE, answer, reply)}})

\* v3 save_client
V3_save_client(w, client, answer, reply) ==
    V3_save(w, "client", client.id,
            Some(<<<<"name", client.name>>, <<"description", client.description>>,
                   <<"global", to_string(client.is_global)>>>>),
            answer, reply)

\* v3 save_category
V3_save_category(w, category, answer, reply) ==
    V3_save(w, "category", category.id,
            Some(<<<<"name", category.name>>,
                   <<"description", unwrap_or_default(category.description)>>>>),
            answer, reply)

\* v3 save_account: account.pass().unwrap() runs while the arguments are built
V3_save_account(w, account, answer, reply) ==
    IF IsNone(account.pass)
    THEN Settle(w, Panic("called Option::unwrap on a None value"))
    ELSE V3_save(w, "account", account.id,
                 Some(<<<<"name", account.name>>,
                        <<"categoryId", to_string(account.category_id)>>,
                        <<"clientId", to_string(account.client_id)>>,
                        <<"pass", Unwrap(account.pass)>>,
                        <<"login", account.login>>,
                        <<"url", unwrap_or_default(account.url)>>,
                        <<"notes", unwrap_or_default(account.notes)>>>>),
                 answer, reply)

\* v3 search_account
V3_search_account(w, search, use_usage, reply) ==
    Only({IF ~IsOk(s.r) THEN s
          ELSE LET payload == s.r.val.result
               IN IF payload.t # "accounts" \/ \E i \in 1..Len(payload.list) : ~payload.list[i].wf
                  THEN Settle(s.w, Panic("Invalid response"))
                  ELSE rank_accounts(s.w,
                           [i \in 1..Len(payload.list) |->
                               Account(payload.list[i].id, payload.list[i].pass)],
                           use_usage)
          : s \in {V3_forge_and_send(w, "account/search", Some(search), FALSE, Cancel, reply)}})

\* v3 get_password
V3_get_password(w, account, answer, reply) ==
    IF IsNone(account.id) THEN Settle(w, Panic("Should not be empty"))
    ELSE Only({IF ~IsOk(s.r) THEN s
               ELSE IF s.r.val.result.t # "password" \/ IsNone(s.r.val.result.password)
                    THEN Settle(s.w, Panic("called Option::unwrap on a None value"))
                    ELSE [w |-> s.w,
                          r |-> Ok([account |-> account,
                                    password |-> Unwrap(s.r.val.result.password)])]
               : s \in {V3_forge_and_send(w, "account/viewPass",
                                          Some(<<<<"id", to_string(Unwrap(account.id))>>>>),
                                          TRUE, answer, reply)}})

\* v3 get_clients (kind "client") and get_categories (kind "category")
V3_get_list(w, kind, reply) ==
    Only({IF ~IsOk(s.r) THEN s
          ELSE LET payload == s.r.val.result
               IN IF payload.t # "items" \/ \E i \in 1..Len(payload.list) : ~payload.list[i].wf
                  THEN Settle(s.w, Panic("called Result::unwrap on an Err value"))
                  ELSE [w |-> s.w,
                        r |-> Ok(sort_by_id([i \in 1..Len(payload.list) |->
                                    IF kind = "client" THEN Client(payload.list[i].id)
                                    ELSE Category(payload.list[i].id)]))]
          : s \in {V3_forge_and_send(w, kind \o "/search", None, FALSE, Cancel, reply)}})

\* v3 change_password
V3_change_password(w, password, answer, reply) ==
    Only({IF ~IsOk(s.r) THEN s ELSE Settle(s.w, V3_entity_from("account", s.r.val.result))
          : s \in {V3_forge_and_send(w, "account/editPass",
                                     Some(<<<<"expireDate", ToString(password.expire_date)>>,
                                            <<"pass", password.pass>>,
                                            <<"id", to_string(password.id)>>>>),
                                     TRUE, answer, reply)}})

\* v3::Syspass::delete_request
V3_delete_request(w, method, id, reply) ==
    Only({IF ~IsOk(s.r) THEN s ELSE [w |-> s.w, r |-> Ok(s.r.val.result_code = 0)]
          : s \in {V3_forge_and_send(w, method, Some(<<<<"id", to_string(id)>>>>), FALSE,
                                     Cancel, reply)}})

\* v3 view_account, get_category, get_client
V3_view(w, kind, id, answer, reply) ==
    Only({IF ~IsOk(s.r) THEN s ELSE Settle(s.w, V3_entity_from(kind, s.r.val.result))
          : s \in {V3_forge_and_send(w, kind \o "/view", Some(<<<<"id", to_string(id)>>>>),
                                     TRUE, answer, reply)}})

---------------------------------------------------------------------------
(* Startup: api.rs impl FromStr for Api, main.rs *)

SyspassV3 == "SyspassV3"
SyspassV2 == "SyspassV2"

\* a from_str that takes an unknown version for the current one
from_str_default_v3(input) ==
    CASE input = "SyspassV2" -> Ok(SyspassV2)
      [] OTHER -> Ok(SyspassV3)

\* impl FromStr for Api
from_str(input) ==
    CASE input = "" -> Ok(SyspassV3)
      [] input = "SyspassV3" -> Ok(SyspassV3)
      [] input = "SyspassV2" -> Ok(SyspassV2)
      [] OTHER -> Err("")

\* main: config.api_version.as_ref().map_or("", ..), Api::from_str(..)
\* .unwrap_or_else(panic)
select_api(cfg) == from_str(unwrap_or_default(cfg.api_version))

---------------------------------------------------------------------------
(* Inputs *)

OptIds == {None} \cup {Some(n) : n \in Ids}
IdArgs == 1..MaxId
OptPasses == {None, Some("new-pass")}
ApiVersions == {None, Some(""), Some("SyspassV3"), Some("SyspassV2"), Some("SyspassV1")}
Configs ==
    [token : {"api-token"}, password : {"", "vault-secret"}, api_version : ApiVersions,
     password_timeout : {None}]
Searches == {<<<<"text", "example">>, <<"categoryId", "1">>>>}
ChangePassword(id) == [id |-> id, pass |-> "changed-pass", expire_date |-> 0]

\* usage stores: every counter map over the account identifiers
UsageMaps ==
    {DefaultUsage} \cup
    UNION {[D -> 1..MaxCount] : D \in (SUBSET (1..MaxAccountId)) \ {{}}}

\* transport-level replies around a body the server would have sent
AppError == Envelope(None, Some(JError(TRUE, Some("The account doesn't exist"))))
Empty == Envelope(None, None)
\* {"result": {}}: JSON that fits no response struct of either adapter
Malformed == Bare(Some(JObject), None)
Failures(body) ==
    {ConnError, Http(404, body), Http(200, NonJson), Http(200, AppError), Http(200, Malformed)}

\* "result" objects
ResultObject(itemId, resultCode, payload) ==
    [JObject EXCEPT !.itemId = itemId, !.resultCode = resultCode, !.result = payload]

\* v3 replies
V3Body(itemId, resultCode, payload) ==
    Envelope(Some(ResultObject(itemId, Some(resultCode), Some(payload))), None)
V3ItemIds == {None} \cup {Some(JNum(n)) : n \in Ids}
V3SaveBodies(kind) ==
    {V3Body(i, 0, PEntity({kind}, None, None)) : i \in V3ItemIds}
    \cup {V3Body(Some(JNum(1)), 0, PNull)}
V3SaveReplies(kind) ==
    {Http(200, b) : b \in V3SaveBodies(kind)}
    \cup Failures(V3Body(Some(JNum(1)), 0, PEntity({kind}, None, None)))
V3AccountLists ==
    {<<>>,
     <<V3Account(Some(1), None, TRUE)>>,
     <<V3Account(Some(2), None, TRUE), V3Account(Some(1), None, TRUE)>>,
     <<V3Account(Some(1), Some("stored-pass"), TRUE)>>,
     <<V3Account(None, None, TRUE)>>,
     <<V3Account(None, None, TRUE), V3Account(Some(1), None, TRUE)>>,
     <<V3Account(Some(1), None, FALSE)>>}
V3SearchReplies ==
    {Http(200, V3Body(None, 0, PAccounts(l))) : l \in V3AccountLists}
    \cup {Http(200, V3Body(None, 0, PNull)), Http(200, Empty)}
    \cup Failures(V3Body(None, 0, PAccounts(<<>>)))
V3PasswordReplies ==
    {Http(200, V3Body(None, 0, PPassword(Some("stored-pass")))),
     Http(200, V3Body(None, 0, PPassword(None)))}
    \cup Failures(V3Body(None, 0, PPassword(Some("stored-pass"))))
V3ItemLists ==
    {<<>>, <<V3Item(Some(2), TRUE), V3Item(Some(1), TRUE)>>, <<V3Item(Some(1), FALSE)>>}
V3ListReplies ==
    {Http(200, V3Body(None, 0, PItems(l))) : l \in V3ItemLists}
    \cup Failures(V3Body(None, 0, PItems(<<>>)))
V3DeleteReplies ==
    {Http(200, V3Body(None, c, PNull)) : c \in {0, 1}}
    \cup {Http(200, V3Body(None, 0, PEntity({"account"}, Some(1), None))), Http(200, Empty)}
    \cup Failures(V3Body(None, 0, PNull))
V3ViewReplies(kind) ==
    {Http(200, V3Body(None, 0, PEntity({kind}, Some(i), p)))
        : i \in 1..MaxId, p \in IF kind = "account" THEN {None, Some("stored-pass")} ELSE {None}}
    \cup {Http(200, V3Body(None, 0, PNull))}
    \cup Failures(V3Body(None, 0, PEntity({kind}, Some(1), None)))

\* v2 replies
V2CodeBody(itemId, resultCode) == Bare(Some(ResultObject(itemId, resultCode, None)), None)
V2Body(result) == Envelope(Some(result), None)
V2ItemIds ==
    {None, Some(JStr("abc"))} \cup {Some(JStr(ToString(n))) : n \in Ids}
    \cup {Some(JNum(1))}
V2SaveBodies ==
    {V2Body(ResultObject(i, Some(0), None)) : i \in V2ItemIds}
    \cup {V2CodeBody(Some(JStr("1")), Some(0)),
          V2Body(ResultObject(Some(JStr("1")), None, None)),
          Envelope(None, Some(JError(TRUE, Some("Failed to add account"))))}
V2SaveReplies ==
    {Http(200, b) : b \in V2SaveBodies}
    \cup Failures(V2Body(ResultObject(Some(JStr("1")), Some(0), None)))
V2AccountLists ==
    {<<>>,
     <<V2Account(Some("1"), Some(""), TRUE)>>,
     <<V2Account(Some("2"), Some(""), TRUE), V2Account(Some("1"), Some(""), TRUE)>>,
     <<V2Account(Some("1"), Some("stored-pass"), TRUE)>>,
          <<V2Account(Some("abc"), Some(""), TRUE)>>,
          <<V2Account(Some("1"), None, TRUE)>>}
V2SearchReplies ==
    {Http(200, V2Body(JArray(l))) : l \in V2AccountLists}
    \cup {Http(200, V2Body(JNull)), Http(200, V2CodeBody(None, Some(0))), Http(200, Empty)}
    \cup Failures(V2Body(JArray(<<>>)))
V2PasswordReplies ==
    {Http(200, V2Body([JObject EXCEPT !.pass = Some("stored-pass")])),
     Http(200, V2Body(JObject)),
     Http(200, V2CodeBody(None, Some(0)))}
    \cup Failures(V2Body([JObject EXCEPT !.pass = Some("stored-pass")]))
V2ViewBodies ==
    {V2Body([JObject EXCEPT !.acct = Some(V2Account(Some(ToString(k)), Some(p), TRUE))])
        : k \in 1..(MaxId + 1), p \in {"", "stored-pass"}}
    \cup {V2Body([JObject EXCEPT !.acct = Some(V2Account(Some("1"), Some(""), FALSE))]),
          V2Body(ResultObject(Some(JStr("1")), Some(0), None))}
V2ViewReplies ==
    {Http(200, b) : b \in V2ViewBodies}
    \cup Failures(V2Body([JObject EXCEPT !.acct = Some(V2Account(Some("1"), Some(""), TRUE))]))
V2MemberLists ==
    {<<>>,
     <<V2Item("1", Some("1"), TRUE), V2Item("2", Some("2"), TRUE),
       V2Item("description", None, FALSE)>>,
     <<V2Item("2", Some("2"), TRUE), V2Item("1", Some("abc"), TRUE)>>,
     <<V2Item("2", Some("1"), TRUE), V2Item("count", Some("2"), TRUE)>>,
     <<V2Item("1", None, FALSE)>>}
\* the last body is an object with the member "1" and a numeric "resultCode"
V2ListReplies ==
    {Http(200, V2Body([JObject EXCEPT !.members = l])) : l \in V2MemberLists}
    \cup {Http(200, V2Body(JArray(<<>>))), Http(200, V2CodeBody(None, Some(0))),
          Http(200, V2Body([JObject EXCEPT !.members = <<V2Item("1", Some("1"), TRUE)>>,
                                           !.resultCode = Some(0)]))}
    \cup Failures(V2Body(JObject))
\* the result object of a delete carries the identifier as text, as a number
\* (the shape v2 save reads in its Entity branch) or not at all
V2DeleteReplies ==
    {Http(200, V2Body(ResultObject(None, Some(c), None))) : c \in {0, 1}}
    \cup {Http(200, V2Body(ResultObject(Some(JStr("1")), Some(0), None))),
          Http(200, V2Body(ResultObject(Some(JNum(1)), Some(0), None)))}
    \cup {Http(200, V2Body(JArray(<<>>))), Http(200, Empty)}
    \cup Failures(V2Body(ResultObject(None, Some(0), None)))

---------------------------------------------------------------------------
(* The state machine *)

\* no command has run
NoRun == [cmd |-> "none", args |-> None, log |-> <<>>, code |-> None]

NoCall ==
    [op |-> "start", kind |-> "", id |-> None, arg |-> None, use_usage |-> FALSE,
     store |-> UsageMissing, replies |-> <<>>, out |-> Ok(None)]

\* version strings after which the client behaves differently: absent (the
\* current adapter), the legacy adapter, an unknown one
SpecVersions == {None, Some("SyspassV2"), Some("SyspassV1")}

\* a fresh client.  Spec takes one version string per adapter, SpecStartup
\* all of them.  The counter of a run of Spec stays far below U8_MAX, where
\* the builds do not differ: Spec follows the build without overflow checks,
\* SpecCounter takes both.
Init ==
    /\ config \in {c \in Configs : c.api_version \in SpecVersions}
    /\ api = select_api(config)
    /\ proc = IF IsOk(select_api(config)) THEN "running" ELSE "panic"
    /\ request_number = 1
    /\ PASSWORD = ""
    /\ INIT = FALSE
    /\ prompts = 0
    /\ usage = UsageMissing
    /\ reqs = <<>>
    /\ last = NoCall
    /\ run = NoRun
    /\ calls = 0
    /\ sent = 0
    /\ overflow_checks = FALSE

V3 == IsOk(api) /\ api.val = SyspassV3
V2 == IsOk(api) /\ api.val = SyspassV2

CanCall == proc = "running" /\ calls < MaxCalls

\* The runs of an operation Op(answer, reply, reply2) over its inputs.  An
\* input is drawn only where the operation consumes it: an answer when the
\* prompt is shown, a reply per request handed to the transport.
Outcomes(Op(_, _, _), Replies, Replies2) ==
    LET Second(a, r, one) ==
            IF Len(one.w.reqs) < 2
            THEN {[replies |-> <<r>>, res |-> one]}
            ELSE {[replies |-> <<r, r2>>, res |-> Op(a, r, r2)] : r2 \in Replies2}
        Run(a) ==
            UNION {IF Len(none.w.reqs) = 0
                   THEN {[replies |-> <<>>, res |-> none]}
                   ELSE UNION {UNION {Second(a, r, one) : one \in {Op(a, r, ConnError)}}
                               : r \in Replies}
                   : none \in {Op(a, ConnError, ConnError)}}
    IN UNION {IF none.w.prompts > prompts \/ \E p \in probes : p.one.w.prompts > prompts
              THEN UNION {Run(a) : a \in PromptInputs}
              ELSE IF Len(none.w.reqs) = 0
                   THEN {[replies |-> <<>>, res |-> none]}
                   ELSE UNION {Second(Cancel, p.r, p.one) : p \in probes}
              : none \in {Op(Cancel, ConnError, ConnError)},
                probes \in {{[r |-> r, one |-> Op(Cancel, r, ConnError)] : r \in Replies}}}

\* the operation ran in World and came out as o.res = [w, r]
Commit(op, kind, id, arg, use_usage, o) ==
    /\ request_number' = o.res.w.rn
    /\ PASSWORD' = o.res.w.pw
    /\ INIT' = o.res.w.init
    /\ prompts' = o.res.w.prompts
    /\ usage' = o.res.w.usage
    /\ reqs' = o.res.w.reqs
    /\ proc' = o.res.w.proc
    /\ last' = [op |-> op, kind |-> kind, id |-> id, arg |-> arg, use_usage |-> use_usage,
                store |-> usage, replies |-> o.replies, out |-> o.res.r]
    /\ calls' = calls + 1
    /\ sent' = sent + Len(o.res.w.reqs)
    /\ UNCHANGED <<config, api, overflow_checks, run>>

SearchAccount ==
    /\ CanCall
    /\ \E search \in Searches, use_usage \in BOOLEAN :
        \/ /\ V3
           /\ \E o \in Outcomes(LAMBDA a, r, r2 : V3_search_account(World, search, use_usage, r),
                                V3SearchReplies, {}) :
                Commit("search_account", "account", None, search, use_usage, o)
        \/ /\ V2
           /\ \E o \in Outcomes(LAMBDA a, r, r2 : V2_search_account(World, search, use_usage, r),
                                V2SearchReplies, {}) :
                Commit("search_account", "account", None, search, use_usage, o)

GetPassword ==
    /\ CanCall
    /\ \E id \in OptIds :
        LET account == Account(id, None)
        IN \/ /\ V3
              /\ \E o \in Outcomes(LAMBDA a, r, r2 : V3_get_password(World, account, a, r),
                                   V3PasswordReplies, {}) :
                   Commit("get_password", "account", id, account, FALSE, o)
           \/ /\ V2
              /\ \E o \in Outcomes(LAMBDA a, r, r2 : V2_get_password(World, account, a, r),
                                   V2PasswordReplies, {}) :
                   Commit("get_password", "account", id, account, FALSE, o)

GetList(op, kind) ==
    /\ CanCall
    /\ \/ /\ V3
          /\ \E o \in Outcomes(LAMBDA a, r, r2 : V3_get_list(World, kind, r), V3ListReplies, {}) :
               Commit(op, kind, None, None, FALSE, o)
       \/ /\ V2
          /\ \E o \in Outcomes(LAMBDA a, r, r2 : V2_get_list(World, kind, r), V2ListReplies, {}) :
               Commit(op, kind, None, None, FALSE, o)

GetClients == GetList("get_clients", "client")
GetCategories == GetList("get_categories", "category")

SaveClient ==
    /\ CanCall
    /\ \E id \in OptIds :
        LET client == Client(id)
        IN \/ /\ V3
              /\ \E o \in Outcomes(LAMBDA a, r, r2 : V3_save_client(World, client, a, r),
                                   V3SaveReplies("client"), {}) :
                   Commit("save_client", "client", id, client, FALSE, o)
           \/ /\ V2
              /\ \E o \in Outcomes(LAMBDA a, r, r2 : V2_save_client(World, client, a, r),
                                   V2SaveReplies, {}) :
                   Commit("save_client", "client", id, client, FALSE, o)

SaveCategory ==
    /\ CanCall
    /\ \E id \in OptIds :
        LET category == Category(id)
        IN \/ /\ V3
              /\ \E o \in Outcomes(LAMBDA a, r, r2 : V3_save_category(World, category, a, r),
                                   V3SaveReplies("category"), {}) :
                   Commit("save_category", "category", id, category, FALSE, o)
           \/ /\ V2
              /\ \E o \in Outcomes(LAMBDA a, r, r2 : V2_save_category(World, category, a, r),
                                   V2SaveReplies, {}) :
                   Commit("save_category", "category", id, category, FALSE, o)

SaveAccount ==
    /\ CanCall
    /\ \E id \in OptIds, pass \in OptPasses :
        LET account == Account(id, pass)
        IN \/ /\ V3
              /\ \E o \in Outcomes(LAMBDA a, r, r2 : V3_save_account(World, account, a, r),
                                   V3SaveReplies("account"), {}) :
                   Commit("save_account", "account", id, account, FALSE, o)
           \/ /\ V2
              /\ \E o \in Outcomes(LAMBDA a, r, r2 :
                                       V2_save_account(World, account, a, r, a, r2),
                                   V2SaveReplies, V2ViewReplies) :
                   Commit("save_account", "account", id, account, FALSE, o)

ChangePasswordCall ==
    /\ CanCall
    /\ \E id \in IdArgs :
        \/ /\ V3
           /\ \E o \in Outcomes(LAMBDA a, r, r2 :
                                    V3_change_password(World, ChangePassword(id), a, r),
                                V3ViewReplies("account"), {}) :
                Commit("change_password", "account", Some(id), ChangePassword(id), FALSE, o)
        \/ /\ V2
           /\ \E o \in Outcomes(LAMBDA a, r, r2 : V2_unsupported(World), V2ViewReplies, {}) :
                Commit("change_password", "account", Some(id), ChangePassword(id), FALSE, o)

Delete(op, kind, v3method, v2method) ==
    /\ CanCall
    /\ \E id \in IdArgs :
        \/ /\ V3
           /\ \E o \in Outcomes(LAMBDA a, r, r2 : V3_delete_request(World, v3method, id, r),
                                V3DeleteReplies, {}) :
                Commit(op, kind, Some(id), None, FALSE, o)
        \/ /\ V2
           /\ \E o \in Outcomes(LAMBDA a, r, r2 : V2_delete_request(World, v2method, id, r),
                                V2DeleteReplies, {}) :
                Commit(op, kind, Some(id), None, FALSE, o)

DeleteClient == Delete("delete_client", "client", "client/delete", "deleteCustomer")
DeleteCategory == Delete("delete_category", "category", "category/delete", "deleteCategory")
DeleteAccount == Delete("delete_account", "account", "account/delete", "deleteAccount")

ViewAccount ==
    /\ CanCall
    /\ \E id \in IdArgs :
        \/ /\ V3
           /\ \E o \in Outcomes(LAMBDA a, r, r2 : V3_view(World, "account", id, a, r),
                                V3ViewReplies("account"), {}) :
                Commit("view_account", "account", Some(id), None, FALSE, o)
        \/ /\ V2
           /\ \E o \in Outcomes(LAMBDA a, r, r2 : V2_view_account(World, id, a, r),
                                V2ViewReplies, {}) :
                Commit("view_account", "account", Some(id), None, FALSE, o)

GetOne(op, kind) ==
    /\ CanCall
    /\ \E id \in IdArgs :
        \/ /\ V3
           /\ \E o \in Outcomes(LAMBDA a, r, r2 : V3_view(World, kind, id, a, r),
                                V3ViewReplies(kind), {}) :
                Commit(op, kind, Some(id), None, FALSE, o)
        \/ /\ V2
           /\ \E o \in Outcomes(LAMBDA a, r, r2 : V2_unsupported(World), V2ViewReplies, {}) :
                Commit(op, kind, Some(id), None, FALSE, o)

GetCategory == GetOne("get_category", "category")
GetClient == GetOne("get_client", "client")

Next ==
    \/ SearchAccount
    \/ GetPassword
    \/ GetClients
    \/ GetCategories
    \/ SaveClient
    \/ SaveCategory
    \/ SaveAccount
    \/ ChangePasswordCall
    \/ DeleteClient
    \/ DeleteCategory
    \/ DeleteAccount
    \/ ViewAccount
    \/ GetCategory
    \/ GetClient

Spec == Init /\ [][Next]_vars

TypeOK ==
    /\ request_number \in 0..U8_MAX
    /\ sent \in Nat
    /\ overflow_checks \in BOOLEAN
    /\ proc \in {"running", "panic", "exit"}
    /\ prompts \in Nat
    /\ calls \in 0..MaxCalls

---------------------------------------------------------------------------
(* Ranked search on its own: every usage store, every short result list *)

InitUsages ==
    {UsageMissing, UsageNoDir, UsageUnreadable, UsageInvalid} \cup {UsageMap(m) : m \in UsageMaps}

AccountIds == 1..MaxAccountId
RankedV3Lists ==
    UNION {[1..n -> {V3Account(Some(k), None, TRUE) : k \in AccountIds}] : n \in 0..MaxList}
RankedV2Lists ==
    UNION {[1..n -> {V2Account(Some(ToString(k)), Some(""), TRUE) : k \in AccountIds}]
           : n \in 0..MaxList}

InitSearch ==
    /\ config \in {c \in Configs : c.password # "" /\ c.api_version \in {None, Some("SyspassV2")}}
    /\ api = select_api(config)
    /\ proc = "running"
    /\ request_number = 1
    /\ PASSWORD = ""
    /\ INIT = FALSE
    /\ prompts = 0
    /\ usage \in InitUsages
    /\ reqs = <<>>
    /\ last = NoCall
    /\ run = NoRun
    /\ calls = 0
    /\ sent = 0
    /\ overflow_checks = FALSE

\* one search_account call of a fresh client
RankedSearch ==
    /\ proc = "running"
    /\ calls = 0
    /\ \E use_usage \in BOOLEAN :
        LET search == <<<<"text", "example">>>>
        IN \/ /\ V3
              /\ \E o \in Outcomes(LAMBDA a, r, r2 :
                                       V3_search_account(World, search, use_usage, r),
                                   {Http(200, V3Body(None, 0, PAccounts(l))) : l \in RankedV3Lists},
                                   {}) :
                   Commit("search_account", "account", None, search, use_usage, o)
           \/ /\ V2
              /\ \E o \in Outcomes(LAMBDA a, r, r2 :
                                       V2_search_account(World, search, use_usage, r),
                                   {Http(200, V2Body(JArray(l))) : l \in RankedV2Lists}, {}) :
                   Commit("search_account", "account", None, search, use_usage, o)

NextSearch == RankedSearch

SpecSearch == InitSearch /\ [][NextSearch]_vars

---------------------------------------------------------------------------
(* Startup with every version string, a vault password configured *)

InitStartup ==
    /\ config \in {c \in Configs : c.password # ""}
    /\ api = select_api(config)
    /\ proc = IF IsOk(select_api(config)) THEN "running" ELSE "panic"
    /\ request_number = 1
    /\ PASSWORD = ""
    /\ INIT = FALSE
    /\ prompts = 0
    /\ usage = UsageMissing
    /\ reqs = <<>>
    /\ last = NoCall
    /\ run = NoRun
    /\ calls = 0
    /\ sent = 0
    /\ overflow_checks = FALSE

SpecStartup == InitStartup /\ [][Next]_vars

---------------------------------------------------------------------------
(* The request counter near its end: a client whose earlier calls all      *)
(* returned and brought the counter close to U8_MAX, in either build       *)

InitCounter ==
    /\ config \in {c \in Configs : c.password # "" /\ c.api_version \in {None, Some("SyspassV2")}}
    /\ api = select_api(config)
    /\ proc = "running"
    /\ request_number \in (U8_MAX - MaxCalls)..U8_MAX
    /\ PASSWORD = ""
    /\ INIT = FALSE
    /\ prompts = 0
    /\ usage = UsageMissing
    /\ reqs = <<>>
    /\ last = NoCall
    /\ run = NoRun
    /\ calls = 0
    /\ sent = request_number - 1
    /\ overflow_checks \in BOOLEAN

NextCounter ==
    \/ GetClients
    \/ DeleteAccount
    \/ ViewAccount
    \/ SaveAccount

SpecCounter == InitCounter /\ [][NextCounter]_vars

---------------------------------------------------------------------------
(* The commands: main.rs, search.rs *)

\* main: Ok(code) is the exit code, Err(e) is reported and exits with 1;
\* process::exit(1) exits with 1; a panic ends the process with 101
exit_code(r) ==
    CASE r.t = "Ok" -> r.val
      [] r.t = "Panic" -> 101
      [] OTHER -> 1

\* the trait Client, dispatched on the adapter main selected
search_account(w, search, use_usage, answer, reply) ==
    IF V3 THEN V3_search_account(w, search, use_usage, reply)
    ELSE V2_search_account(w, search, use_usage, reply)
view_account(w, id, answer, reply) ==
    IF V3 THEN V3_view(w, "account", id, answer, reply)
    ELSE V2_view_account(w, id, answer, reply)
get_password(w, account, answer, reply) ==
    IF V3 THEN V3_get_password(w, account, answer, reply)
    ELSE V2_get_password(w, account, answer, reply)

\* what the server may answer to a request of each operation
SearchReplies == IF V3 THEN V3SearchReplies ELSE V2SearchReplies
AccountReplies == IF V3 THEN V3ViewReplies("account") ELSE V2ViewReplies
PasswordReplies == IF V3 THEN V3PasswordReplies ELSE V2PasswordReplies

\* The ways one call of an operation can go: every answer to the vault
\* prompt, every reply of the server.  The log keeps the call, the replies
\* it consumed and how it came out.
CallN(w, name, Op(_, _, _), Scripts) ==
    {Only({[w |-> Log(s.w, name, [replies |-> SubSeq(script, 1, Len(s.w.reqs) - Len(w.reqs)),
                                  out |-> s.r]),
            r |-> s.r]
           : s \in {Op(w, answer, script)}})
     : answer \in PromptInputs, script \in Scripts}

\* an operation that sends one request at most
Call(w, name, Op(_, _, _), Replies) ==
    CallN(w, name, LAMBDA v, a, script : Op(v, a, script[1]), {<<reply>> : reply \in Replies})

\* error!(..); process::exit(1)
exit_with(w, message) == Settle(log_error(w, message), Exit)

\* config.password_timeout.unwrap_or(10)
password_timeout == IF IsSome(config.password_timeout) THEN Unwrap(config.password_timeout) ELSE 10

\* arboard: Clipboard::new() fails without a display; set_text / clear may fail
Clipboards == {"ok", "unavailable", "broken"}

\* search::clear_clipboard(timeout, false): what `search --clear` does
clear_clipboard(w, timeout) ==
    IF timeout > 0
    THEN {CASE clipboard = "ok" -> [w |-> Log(w, "clipboard_clear", 0), r |-> Ok(0)]
            [] clipboard = "broken" -> Settle(w, Panic("Failed to clear clipboard"))
            [] OTHER -> [w |-> w, r |-> Err("Could not clear clipboard")]
          : clipboard \in Clipboards}
    ELSE {[w |-> w, r |-> Ok(0)]}

\* a select_account that records the usage whatever --disable-usage says
select_account_always_records(w, accounts, disable_usage) ==
    {[w |-> Log(w, "select", 0), r |-> Err("Operation was canceled by the user")]}
    \cup UNION {IF IsNone(accounts[i].id)
                THEN {Settle(Log(w, "select", i), Panic("Id should be set"))}
                ELSE UNION {IF ~IsOk(u.r) THEN {u}
                            ELSE Call(u.w, "get_password",
                                      LAMBDA v, a, r : get_password(v, accounts[i], a, r),
                                      PasswordReplies)
                            : u \in {record_usage(Log(w, "select", i),
                                                  Unwrap(accounts[i].id))}}
                : i \in 1..Len(accounts)}

\* search::select_account: the user picks one of the accounts or cancels; the
\* pick is recorded in the usage store unless --disable-usage is set, then
\* its password is fetched
select_account(w, accounts, disable_usage) ==
    {[w |-> Log(w, "select", 0), r |-> Err("Operation was canceled by the user")]}
    \cup UNION {IF disable_usage
                THEN Call(Log(w, "select", i), "get_password",
                          LAMBDA v, a, r : get_password(v, accounts[i], a, r),
                          PasswordReplies)
                ELSE IF IsNone(accounts[i].id)
                THEN {Settle(Log(w, "select", i), Panic("Id should be set"))}
                ELSE UNION {IF ~IsOk(u.r) THEN {u}
                            ELSE Call(u.w, "get_password",
                                      LAMBDA v, a, r : get_password(v, accounts[i], a, r),
                                      PasswordReplies)
                            : u \in {record_usage(Log(w, "select", i),
                                                  Unwrap(accounts[i].id))}}
                : i \in 1..Len(accounts)}

\* search::command, lines 148-170: the password goes to the clipboard and a
\* `search --clear` child is started, or it is printed as plain text.  The
\* accounts of the model have no ssh:// url, so no shell is opened.
reveal(w, account, show) ==
    IF show THEN {[w |-> Log(w, "print", 0), r |-> Ok(0)]}
    ELSE {IF clipboard = "broken" THEN Settle(w, Panic("Couldn't set password"))
          ELSE Only({[w |-> Log(IF password_timeout > 0 THEN Log(w1, "spawn_clear", 0) ELSE w1,
                                "print", 0),
                      r |-> Ok(0)]
                     : w1 \in {IF clipboard = "ok" THEN Log(w, "clipboard_set", 0) ELSE w}})
          : clipboard \in Clipboards}

\* search::command, lines 119-146: one account's password, or the end
view_password(w, accounts, m) ==
    IF Len(accounts) > 1 /\ m.quiet THEN {[w |-> w, r |-> Ok(1)]}
    ELSE UNION {IF IsOk(p.r) THEN reveal(p.w, p.r.val, m.show)
                ELSE IF IsErr(p.r)
                THEN {exit_with(p.w, "Error while searching: " \o p.r.err)}
                ELSE {p}
                : p \in IF Len(accounts) > 1
                        THEN select_account(w, accounts, m.disable_usage)
                        ELSE IF Len(accounts) = 0
                        THEN {Settle(log_warn(w, "No account found"), Exit)}
                        ELSE Call(w, "get_password",
                                  LAMBDA v, a, r : get_password(v, accounts[1], a, r),
                                  PasswordReplies)}

\* search::command with get_accounts_list
search_command(w, m) ==
    IF m.clear THEN clear_clipboard(w, password_timeout)
    ELSE IF m.id > 0
    THEN UNION {IF IsOk(s.r) THEN view_password(s.w, <<s.r.val>>, m)
                ELSE IF IsErr(s.r)
                THEN {Settle(s.w, Panic("Invalid account id: " \o s.r.err))}
                ELSE {s}
                : s \in Call(w, "view_account", LAMBDA v, a, r : view_account(v, m.id, a, r),
                             AccountReplies)}
    ELSE IF m.name = "" THEN {Settle(log_warn(w, "Name or id is required"), Exit)}
    ELSE UNION {IF IsOk(s.r) THEN view_password(s.w, s.r.val, m)
                ELSE IF IsErr(s.r)
                THEN {exit_with(s.w, "Error while searching: " \o s.r.err)}
                ELSE {s}
                : s \in Call(w, "search_account",
                             LAMBDA v, a, r :
                                 search_account(v, <<<<"text", m.name>>>>
                                                   \o IF m.category > 0
                                                      THEN <<<<"categoryId",
                                                               to_string(m.category)>>>>
                                                      ELSE <<>>,
                                                ~m.disable_usage, a, r),
                             SearchReplies)}

\* main ran the command with the arguments m and it came out as s
Finish(cmd, m, s) ==
    /\ request_number' = s.w.rn
    /\ PASSWORD' = s.w.pw
    /\ INIT' = s.w.init
    /\ prompts' = s.w.prompts
    /\ usage' = s.w.usage
    /\ reqs' = s.w.reqs
    /\ proc' = IF s.w.proc = "running" THEN "exit" ELSE s.w.proc
    /\ last' = [NoCall EXCEPT !.op = "main", !.store = usage, !.out = s.r]
    /\ calls' = calls + 1
    /\ sent' = sent + Len(s.w.reqs)
    /\ run' = [cmd |-> cmd, args |-> m, code |-> Some(exit_code(s.r)),
                log |-> IF IsErr(s.r) THEN log_error(s.w, s.r.err).log ELSE s.w.log]
    /\ UNCHANGED <<config, api, overflow_checks>>

\* the arguments of `search`
SearchArgs ==
    [id : {0, 1}, name : {"", "example"}, category : {0, 1}, show : BOOLEAN,
     disable_usage : BOOLEAN, quiet : BOOLEAN, clear : BOOLEAN]

Search ==
    /\ proc = "running" /\ calls = 0
    /\ \E m \in SearchArgs :
        \E s \in search_command(set_max_level(World, m.quiet), m) : Finish("search", m, s)

---------------------------------------------------------------------------
(* The commands: helper.rs, remove.rs, remove/*.rs *)

\* helper::get_numeric_input: the number given, 0 for a new entity, the end
\* of the process under --quiet, else what the callback comes to
get_numeric_input(w, id, new, quiet, callback) ==
    IF IsSome(id) THEN {[w |-> w, r |-> Ok(Unwrap(id))]}
    ELSE IF new THEN {[w |-> w, r |-> Ok(0)]}
    ELSE IF quiet THEN {Settle(log_warn(w, "Could not ask for input"), Exit)}
    ELSE callback

\* delete_account, delete_client, delete_category of the selected adapter
delete(w, kind, id, reply) ==
    IF V3 THEN V3_delete_request(w, kind \o "/delete", id, reply)
    ELSE V2_delete_request(w, CASE kind = "client" -> "deleteCustomer"
                                [] kind = "category" -> "deleteCategory"
                                [] OTHER -> "deleteAccount",
                           id, reply)
DeleteReplies == IF V3 THEN V3DeleteReplies ELSE V2DeleteReplies

\* remove/account.rs, remove/client.rs, remove/category.rs: command
remove_entity(w, kind, id) ==
    {IF IsOk(d.r)
     THEN [w |-> log_warn(d.w, IF d.r.val THEN "removed" ELSE "Failed to remove"),
           r |-> Ok(0)]
     ELSE IF IsErr(d.r)
     THEN exit_with(d.w, IF kind = "account" THEN d.r.err ELSE "Api error: " \o d.r.err)
     ELSE d
     : d \in Call(w, "delete", LAMBDA v, a, r : delete(v, kind, id, r), DeleteReplies)}

\* a remove command that hands the id 0 to the server as well
remove_command_any_id(w, m) ==
    UNION {IF ~IsOk(i.r) THEN {i}
           ELSE remove_entity(i.w, m.kind, i.r.val)
           : i \in get_numeric_input(w, m.id, FALSE, m.quiet, {[w |-> w, r |-> Ok(0)]})}

\* remove::command
remove_command(w, m) ==
    UNION {IF ~IsOk(i.r) THEN {i}
           ELSE IF i.r.val = 0 THEN {[w |-> i.w, r |-> Err("Invalid id given")]}
           ELSE remove_entity(i.w, m.kind, i.r.val)
           : i \in get_numeric_input(w, m.id, FALSE, m.quiet, {[w |-> w, r |-> Ok(0)]})}

\* the arguments of `remove <kind>`
RemoveArgs ==
    [kind : {"account", "client", "category"}, id : {None} \cup {Some(n) : n \in 0..MaxId},
     quiet : BOOLEAN]

Remove ==
    /\ proc = "running" /\ calls = 0
    /\ \E m \in RemoveArgs :
        \E s \in remove_command(set_max_level(World, m.quiet), m) : Finish("remove", m, s)

---------------------------------------------------------------------------
(* The commands: prompt.rs, api/category.rs, api/client.rs, edit.rs, edit/*.rs *)

MaxTries == 2     \* category names the user enters before giving up (category::ask_for)

\* the steps of a command in program order: the next step runs on what the
\* last one returned; an error, a panic or an exit ends the command there
AndThen(S, F(_)) == UNION {IF IsOk(x.r) THEN F(x) ELSE {x} : x \in S}

\* the trait Client, dispatched on the adapter main selected
get_list(w, kind, reply) ==
    IF V3 THEN V3_get_list(w, kind, reply) ELSE V2_get_list(w, kind, reply)
\* a get_category / get_client the legacy adapter forwards to the server
get_one_forwarded(w, kind, id, answer, reply) == V3_view(w, kind, id, answer, reply)
get_one(w, kind, id, answer, reply) ==
    IF V3 THEN V3_view(w, kind, id, answer, reply) ELSE V2_unsupported(w)
save(w, kind, entity, answer, reply) ==
    CASE V3 /\ kind = "client" -> V3_save_client(w, entity, answer, reply)
      [] V3 /\ kind # "client" -> V3_save_category(w, entity, answer, reply)
      [] ~V3 /\ kind = "client" -> V2_save_client(w, entity, answer, reply)
      [] OTHER -> V2_save_category(w, entity, answer, reply)
save_account(w, account, answer, script) ==
    IF V3 THEN V3_save_account(w, account, answer, script[1])
    ELSE V2_save_account(w, account, answer, script[1], answer, script[2])
change_password(w, password, answer, reply) ==
    IF V3 THEN V3_change_password(w, password, answer, reply) ELSE V2_unsupported(w)

\* The server a command talks to: for each operation one reply of a server
\* that cooperates, and the two ways it can fail (an error of the
\* application, no connection)
Failing == {Http(200, AppError), ConnError}
GoodList ==
    IF V3 THEN Http(200, V3Body(None, 0, PItems(<<V3Item(Some(1), TRUE)>>)))
    ELSE Http(200, V2Body([JObject EXCEPT !.members = <<V2Item("1", Some("1"), TRUE)>>]))
GoodEntity(kind) == Http(200, V3Body(None, 0, PEntity({kind}, Some(1), None)))
GoodSave(kind) ==
    IF V3 THEN Http(200, V3Body(Some(JNum(1)), 0, PEntity({kind}, None, None)))
    ELSE Http(200, V2Body(ResultObject(Some(JStr("1")), Some(0), None)))
GoodView ==
    Http(200, V2Body([JObject EXCEPT !.acct = Some(V2Account(Some("1"), Some(""), TRUE))]))
Cooperating ==
    {GoodList, GoodView} \cup {GoodEntity(k) : k \in {"account", "client", "category"}}
    \cup {GoodSave(k) : k \in {"account", "client", "category"}}
ListReplies == {GoodList} \cup Failing
EntityReplies(kind) == {GoodEntity(kind)} \cup Failing
SaveReplies(kind) == {GoodSave(kind)} \cup Failing
SaveAccountScripts ==
    {<<r1, r2>> : r1 \in SaveReplies("account"), r2 \in {GoodView} \cup Failing}

\* prompt::ask_prompt: what the user typed; a cancelled prompt ends the process
ask_prompt(w, typed) ==
    {Settle(Log(w, "cancelled", 0), Exit), [w |-> w, r |-> Ok(typed)]}

\* prompt::get_match_string: the option given, else the prompt, else (under
\* --quiet) the default
get_match_string(w, given, quiet, default, typed) ==
    IF IsSome(given) THEN {[w |-> w, r |-> Ok(Unwrap(given))]}
    ELSE IF ~quiet THEN ask_prompt(w, typed)
    ELSE {[w |-> w, r |-> Ok(default)]}

ID_EMPTY == "Id should not be empty"

\* category::ask_for, the loop: name and description are asked for and the
\* category is saved, again after every failure to save
RECURSIVE new_category(_, _)
new_category(w, tries) ==
    IF tries = 0 THEN {Settle(Log(w, "cancelled", 0), Exit)}
    ELSE AndThen(ask_prompt(w, "typed-name"), LAMBDA n :
         AndThen(ask_prompt(n.w, "typed-text"), LAMBDA d :
            UNION {IF IsOk(s.r)
                   THEN {IF IsNone(s.r.val.id) THEN Settle(s.w, Panic(ID_EMPTY))
                         ELSE [w |-> s.w, r |-> Ok(Unwrap(s.r.val.id))]}
                   ELSE IF IsErr(s.r)
                   THEN new_category(log_error(s.w, "Failed to save client: " \o s.r.err),
                                     tries - 1)
                   ELSE {s}
                   : s \in Call(d.w, "save_category",
                                LAMBDA v, a, r :
                                    save(v, "category",
                                         [Category(None) EXCEPT !.name = n.r.val,
                                                                !.description = Some(d.r.val)],
                                         a, r),
                                SaveReplies("category"))}))

\* the pick from a list of entities
pick(w, list, i) ==
    IF IsNone(list[i].id) THEN Settle(Log(w, "select", i), Panic(ID_EMPTY))
    ELSE [w |-> Log(w, "select", i), r |-> Ok(Unwrap(list[i].id))]

\* category::ask_for
category_ask_for(w) ==
    UNION {IF IsErr(l.r)
           THEN {[w |-> l.w, r |-> Err(l.r.err \o ": Could not list categories")]}
           ELSE IF ~IsOk(l.r) THEN {l}
           ELSE {pick(l.w, l.r.val, i) : i \in 1..Len(l.r.val)}
                \cup new_category(Log(l.w, "select", 0), MaxTries)
           : l \in Call(w, "get_categories", LAMBDA v, a, r : get_list(v, "category", r),
                        ListReplies)}

\* client::ask_for: a list that could not be fetched counts as empty; the new
\* client is saved once.  (--global is not an argument of `edit client`; a
\* build without debug assertions reads it as absent.)
client_ask_for(w) ==
    UNION {IF ~Returns(l.r) THEN {l}
           ELSE Only({{pick(w1, clients, i) : i \in 1..Len(clients)}
                      \cup
                      AndThen(ask_prompt(Log(w1, "select", 0), "typed-name"), LAMBDA n :
                      AndThen(ask_prompt(n.w, "typed-text"), LAMBDA d :
                         {IF IsOk(s.r)
                          THEN IF IsNone(s.r.val.id) THEN Settle(s.w, Panic(ID_EMPTY))
                               ELSE [w |-> s.w, r |-> Ok(Unwrap(s.r.val.id))]
                          ELSE IF IsErr(s.r)
                          THEN Settle(s.w, Panic("Failed to save client: " \o s.r.err))
                          ELSE s
                          : s \in Call(d.w, "save_client",
                                       LAMBDA v, a, r :
                                           save(v, "client",
                                                [Client(None) EXCEPT !.name = n.r.val,
                                                                     !.description = d.r.val],
                                                a, r),
                                       SaveReplies("client"))}))
                      : w1 \in {IF IsErr(l.r)
                                THEN log_error(l.w, l.r.err \o " while trying to list clients")
                                ELSE l.w},
                        clients \in {IF IsOk(l.r) THEN l.r.val ELSE <<>>}})
           : l \in Call(w, "get_clients", LAMBDA v, a, r : get_list(v, "client", r),
                        ListReplies)}

\* edit_category / edit_client up to the save: the entity fetched or a new
\* one, with the name and the description given or asked for
edited(w, kind, m, id) ==
    AndThen(IF id = 0
            THEN {[w |-> log_warn(w, "Creating a new " \o kind),
                   r |-> Ok(IF kind = "client"
                            THEN [Client(None) EXCEPT !.name = ""]
                            ELSE [Category(None) EXCEPT !.name = ""])]}
            ELSE Call(w, "get_" \o kind, LAMBDA v, a, r : get_one(v, kind, id, a, r),
                      EntityReplies(kind)),
            LAMBDA e :
    AndThen(get_match_string(e.w, m.name, m.quiet, e.r.val.name, "typed-name"), LAMBDA n :
    AndThen(get_match_string(n.w, m.description, m.quiet,
                             IF kind = "client" THEN e.r.val.description
                             ELSE unwrap_or_default(e.r.val.description),
                             "typed-text"),
            LAMBDA d :
        {[w |-> d.w,
          r |-> Ok([e.r.val EXCEPT !.name = n.r.val,
                                   !.description = IF kind = "client" THEN d.r.val
                                                   ELSE Some(d.r.val)])]})))

\* edit/category.rs: edit_category
edit_category(w, m, id) ==
    AndThen(edited(w, "category", m, id), LAMBDA e :
        {IF IsOk(s.r)
         THEN IF IsNone(s.r.val.id) THEN Settle(s.w, Panic("Id should be set after saving"))
              ELSE [w |-> log_warn(s.w, "Category saved!"), r |-> Ok(0)]
         ELSE IF IsErr(s.r) THEN [w |-> s.w, r |-> Err(s.r.err \o ": Could not save category")]
         ELSE s
         : s \in Call(e.w, "save_category",
                      LAMBDA v, a, r : save(v, "category", e.r.val, a, r),
                      SaveReplies("category"))})

\* edit/category.rs: command.  An error of ask_for counts as the id 0.
category_command(w, m) ==
    AndThen(get_numeric_input(w, m.id, m.new, m.quiet,
                              {IF IsErr(a.r) THEN [w |-> a.w, r |-> Ok(0)] ELSE a
                               : a \in category_ask_for(w)}),
            LAMBDA i : edit_category(i.w, m, i.r.val))

\* edit/client.rs: edit_client
edit_client(w, m, id) ==
    AndThen(edited(w, "client", m, id), LAMBDA e :
        {IF IsOk(s.r)
         THEN IF IsNone(s.r.val.id)
              THEN Settle(s.w, Panic("called Option::unwrap on a None value"))
              ELSE [w |-> log_warn(s.w, "Client saved!"), r |-> Ok(0)]
         ELSE IF IsErr(s.r)
         THEN [w |-> log_error(s.w, "Could not save client: " \o s.r.err), r |-> s.r]
         ELSE s
         : s \in Call(e.w, "save_client",
                      LAMBDA v, a, r : save(v, "client", e.r.val, a, r),
                      SaveReplies("client"))})

\* edit/client.rs: command
client_command(w, m) ==
    AndThen(IF IsSome(m.id) THEN {[w |-> w, r |-> Ok(Unwrap(m.id))]}
            ELSE IF m.new THEN {[w |-> w, r |-> Ok(0)]}
            ELSE IF m.quiet THEN {Settle(log_warn(w, "Could not ask for client"), Exit)}
            ELSE client_ask_for(w),
            LAMBDA i : edit_client(i.w, m, i.r.val))

\* edit_password::get_password: one of the generated passwords, or the
\* user's own, which may be empty; cancelling either prompt ends the process
choose_password(w) ==
    {Settle(log_error(Log(w, "cancelled", 0), "Cancelled"), Exit)}
    \cup {[w |-> Log(w, "chosen", p), r |-> Ok(p)] : p \in {"generated-pass", "own-pass", ""}}

\* NaiveDateTime::parse_from_str(date + "23:59:59", "%Y-%m-%d %H:%M:%S") and
\* its timestamp: 2024-07-05 is a date, any other text of the model is not
Dates == {"2024-07-05"}
parse_expiration(text) ==
    IF text \in Dates THEN Ok("1720223999") ELSE Panic("Failed to parse expiration date")

\* String::parse::<i64>().unwrap_or(0) of what get_args left
expire_date(text) == IF text = "1720223999" THEN 1720223999 ELSE 0

\* edit_password::get_args
get_args(w, m) ==
    AndThen(IF IsNone(m.password) /\ ~m.quiet THEN choose_password(w)
            ELSE {[w |-> w, r |-> Ok(unwrap_or_default(m.password))]},
            LAMBDA p :
    AndThen(IF IsNone(m.expiration)
            THEN IF ~m.quiet
                 THEN {Settle(log_error(Log(p.w, "cancelled", 0), "Cancelled"), Exit),
                       [w |-> p.w, r |-> Ok("")],
                       [w |-> p.w, r |-> Ok("1720223999")]}
                 ELSE {[w |-> p.w, r |-> Ok("")]}
            ELSE {Settle(p.w, parse_expiration(Unwrap(m.expiration)))},
            LAMBDA e :
        {[w |-> e.w, r |-> Ok([id |-> m.id, password |-> p.r.val,
                               expiration_date |-> e.r.val])]}))

\* edit_password::command
password_command(w, m) ==
    AndThen(get_args(w, m), LAMBDA args :
        IF args.r.val.password = ""
        THEN {[w |-> args.w, r |-> Err("Password can't be empty")]}
        ELSE {IF IsOk(c.r)
              THEN [w |-> log_warn(c.w, "Password changed for account"), r |-> Ok(0)]
              ELSE c
              : c \in Call(args.w, "change_password",
                           LAMBDA v, a, r :
                               change_password(v, [id |-> args.r.val.id,
                                                   pass |-> args.r.val.password,
                                                   expire_date |->
                                                       expire_date(args.r.val.expiration_date)],
                                               a, r),
                           EntityReplies("account"))})

\* new_password::command: the arguments of Account::new in the order they
\* are evaluated, then save_account
new_password_command(w, m) ==
    AndThen(get_match_string(w, m.name, m.quiet, "", "typed-name"), LAMBDA name :
    AndThen(get_match_string(name.w, m.description, m.quiet, "", "typed-text"), LAMBDA text :
    AndThen(get_numeric_input(text.w, m.category, FALSE, m.quiet,
                              {IF IsErr(a.r) THEN exit_with(a.w, a.r.err) ELSE a
                               : a \in category_ask_for(text.w)}),
            LAMBDA category :
    AndThen(get_numeric_input(category.w, m.client, FALSE, m.quiet,
                              client_ask_for(category.w)),
            LAMBDA client :
    AndThen(IF IsSome(m.password) THEN {[w |-> client.w, r |-> Ok(m.password)]}
            ELSE IF m.quiet
            THEN {Settle(log_warn(client.w, "Could not ask for client"), Exit)}
            ELSE {IF IsOk(p.r) THEN [w |-> p.w, r |-> Ok(Some(p.r.val))] ELSE p
                  : p \in choose_password(client.w)},
            LAMBDA password :
        {IF IsOk(s.r)
         THEN IF IsNone(s.r.val.id) THEN Settle(s.w, Panic("Id should not be empty"))
              ELSE [w |-> log_warn(s.w, "Account saved!"), r |-> Ok(0)]
         ELSE IF IsErr(s.r) THEN [w |-> s.w, r |-> Err("Could not save client: " \o s.r.err)]
         ELSE s
         : s \in CallN(password.w, "save_account",
                       LAMBDA v, a, script :
                           save_account(v, [Account(Some(0), password.r.val)
                                               EXCEPT !.name = name.r.val,
                                                      !.login = text.r.val,
                                                      !.url = Some(text.r.val),
                                                      !.notes = Some(text.r.val),
                                                      !.category_id = category.r.val,
                                                      !.client_id = client.r.val],
                                        a, script),
                       SaveAccountScripts)})))))

\* the arguments of `edit category`, `edit client`, `new category`, `new client`
EntityArgs ==
    [id : {None} \cup {Some(n) : n \in 0..MaxId}, name : {None, Some("renamed")},
     description : {None, Some("described")}, quiet : BOOLEAN, new : BOOLEAN]
\* the arguments of `edit password`
PasswordArgs ==
    [id : 0..MaxId, password : {None, Some("new-pass")},
     expiration : {None, Some("2024-07-05"), Some("soon")}, quiet : BOOLEAN]
\* the arguments of `new password`
AccountArgs ==
    [name : {None, Some("renamed")}, description : {None, Some("described")},
     category : {None, Some(1)}, client : {None, Some(1)},
     password : {None, Some("new-pass")}, quiet : BOOLEAN]

EditCategory ==
    /\ proc = "running" /\ calls = 0
    /\ \E m \in EntityArgs :
        \E s \in category_command(set_max_level(World, m.quiet), m) :
            Finish(IF m.new THEN "new category" ELSE "edit category", m, s)

EditClient ==
    /\ proc = "running" /\ calls = 0
    /\ \E m \in EntityArgs :
        \E s \in client_command(set_max_level(World, m.quiet), m) :
            Finish(IF m.new THEN "new client" ELSE "edit client", m, s)

EditPassword ==
    /\ proc = "running" /\ calls = 0
    /\ \E m \in PasswordArgs :
        \E s \in password_command(set_max_level(World, m.quiet), m) :
            Finish("edit password", m, s)

NewPassword ==
    /\ proc = "running" /\ calls = 0
    /\ \E m \in AccountArgs :
        \E s \in new_password_command(set_max_level(World, m.quiet), m) :
            Finish("new password", m, s)

\* configurations and usage stores a command may start with
CommandConfigs ==
    [token : {"api-token"}, password : {"", "vault-secret"},
     api_version : {None, Some("SyspassV2")}, password_timeout : {None, Some(0)}]
CommandUsages == {UsageMissing, UsageInvalid, UsageMap(2 :> 1)}

InitCommand ==
    /\ config \in CommandConfigs
    /\ api = select_api(config)
    /\ proc = "running"
    /\ request_number = 1
    /\ PASSWORD = ""
    /\ INIT = FALSE
    /\ prompts = 0
    /\ usage \in CommandUsages
    /\ reqs = <<>>
    /\ last = NoCall
    /\ run = NoRun
    /\ calls = 0
    /\ sent = 0
    /\ overflow_checks = FALSE

NextSearchCommand == Search

SpecSearchCommand == InitCommand /\ [][NextSearchCommand]_vars

NextRemove == Remove

SpecRemove == InitCommand /\ [][NextRemove]_vars

NextEdit == EditCategory \/ EditClient \/ EditPassword

SpecEdit == InitCommand /\ [][NextEdit]_vars

NextCommand == Search \/ Remove \/ EditCategory \/ EditClient \/ EditPassword \/ NewPassword

SpecCommand == InitCommand /\ [][NextCommand]_vars

---------------------------------------------------------------------------
(* The usage store on its own: every store, both builds *)

\* stores that hold a counter at u32::MAX
FullUsageMaps == {(1 :> U32_MAX), (1 :> U32_MAX) @@ (2 :> 1)}
InitUsage ==
    /\ config \in {c \in Configs : c.password # "" /\ c.api_version = None}
    /\ api = select_api(config)
    /\ proc = "running"
    /\ request_number = 1
    /\ PASSWORD = ""
    /\ INIT = FALSE
    /\ prompts = 0
    /\ usage \in InitUsages \cup {UsageMap(m) : m \in FullUsageMaps}
    /\ reqs = <<>>
    /\ last = NoCall
    /\ run = NoRun
    /\ calls = 0
    /\ sent = 0
    /\ overflow_checks \in BOOLEAN

RecordUsage ==
    /\ CanCall
    /\ \E id \in 0..MaxAccountId :
        Commit("record_usage", "account", Some(id), None, FALSE,
               [replies |-> <<>>, res |-> record_usage(World, id)])

GetUsageData ==
    /\ CanCall
    /\ Commit("get_usage_data", "", None, None, FALSE,
              [replies |-> <<>>, res |-> Settle(get_usage_data(World).w,
                                                IF IsOk(get_usage_data(World).r)
                                                THEN Ok(None) ELSE get_usage_data(World).r)])

NextUsage == RecordUsage \/ GetUsageData

SpecUsage == InitUsage /\ [][NextUsage]_vars

---------------------------------------------------------------------------
(* Properties *)

SaveOps == {"save_client", "save_category", "save_account"}
UnsupportedOps == {"get_client", "get_category", "change_password"}
SecretOps == SaveOps \cup UnsupportedOps \cup {"view_account", "get_password"}

\* the reply the last operation consumed last
LastReply == last.replies[Len(last.replies)]

\* the "itemId" member of the result object a reply carries, as a number
HasItemId(reply) ==
    /\ reply.net = "http" /\ reply.body.json /\ IsSome(reply.body.result)
    /\ Unwrap(reply.body.result).t = "obj"
    /\ IsSome(Unwrap(reply.body.result).itemId)
ItemIdOf(reply) ==
    LET v == Unwrap(Unwrap(reply.body.result).itemId)
    IN IF v.js = "num" THEN Some(v.n) ELSE parse_u32(v.s)

\* the JSON body fits none of the response structs of the selected adapter
SchemaMismatch(body) ==
    IF V2 THEN ~FitsCode(body) /\ ~FitsEntity(body)
    ELSE ~(V3ResultFits(body) /\ V3ErrorFits(body))

\* C1: every request a save of the current (v3) adapter sends, for any entity
\* kind, goes to <resource>/create without an id parameter when the
\* identifier is absent or 0, and to <resource>/edit with parameter id = n
\* when the identifier is n > 0; a save that returns (a value or an error)
\* has sent exactly one such request.
C1_CreateOrEdit ==
    (V3 /\ last.op \in SaveOps) =>
        /\ Returns(last.out) => Len(reqs) = 1
        /\ \A i \in 1..Len(reqs) :
            IF IsNone(last.id) \/ last.id = Some(0)
            THEN /\ reqs[i].method = last.kind \o "/create"
                 /\ ~HasParam(reqs[i], "id")
            ELSE /\ reqs[i].method = last.kind \o "/edit"
                 /\ HasParam(reqs[i], "id")
                 /\ reqs[i].params["id"] = to_string(Unwrap(last.id))

\* C1 witness: a category with identifier 1 was saved through v3 and the
\* request went to category/edit with id = 1
C1_Witness ==
    /\ V3 /\ last.op = "save_category" /\ last.id = Some(1)
    /\ Len(reqs) = 1
    /\ reqs[1].method = "category/edit"
    /\ HasParam(reqs[1], "id") /\ reqs[1].params["id"] = "1"

C3_Unsupported ==
    (V2 /\ last.op \in UnsupportedOps) =>
        /\ last.out = Err(NOT_SUPPORTED)
        /\ last.out = V2_save(World, "addCategory", Some(1), None, Cancel, ConnError).r
        /\ reqs = <<>>

\* C3 witness: change_password was called on v2 after an operation that had
\* sent a request
C3_Witness ==
    /\ V2 /\ last.op = "change_password" /\ last.out = Err(NOT_SUPPORTED)
    /\ request_number = 2 /\ calls = 2

\* C4: the vault-password prompt is invoked at most once in a process; the
\* cached value never changes once set, and with no password configured every
\* request that carries tokenPass carries the value the one prompt returned.
C4_PromptOnce ==
    [][/\ prompts' <= 1
       /\ PASSWORD # "" => PASSWORD' = PASSWORD
       /\ config.password = "" =>
            \A i \in 1..Len(reqs') :
                HasParam(reqs'[i], "tokenPass") =>
                    /\ prompts' = 1
                    /\ PASSWORD' \in PromptAnswers
                    /\ reqs'[i].params["tokenPass"] = PASSWORD']_vars

\* C4 witness: no password configured, one prompt, and two requests of one
\* run of save_account both carrying the value typed at that prompt
C4_Witness ==
    /\ config.password = "" /\ prompts = 1
    /\ Len(reqs) = 2
    /\ \A i \in 1..2 : HasParam(reqs[i], "tokenPass")
                       /\ reqs[i].params["tokenPass"] = "typed-secret"

Counter(id) == IF usage.kind = "map" THEN usage_of(usage.map, id) ELSE 0

\* the counter the ranking of the last search went by
RankOf(account) == IF last.use_usage THEN Counter(Unwrap(account.id)) ELSE 0

Searched == last.op = "search_account" /\ IsOk(last.out)

\* C6: in the list a ranked search_account returns, of two accounts that
\* both have a nonzero usage counter the one with the strictly higher counter
\* comes first.
C6_HigherFirst ==
    (Searched /\ last.use_usage) =>
        \A i, j \in 1..Len(last.out.val) :
            (/\ Counter(Unwrap(last.out.val[i].id)) > 0
             /\ Counter(Unwrap(last.out.val[j].id)) > 0
             /\ Counter(Unwrap(last.out.val[i].id)) > Counter(Unwrap(last.out.val[j].id)))
            => i < j

\* the accounts of the reply to a v3 search, in the order the server sent them
V3Replied == Unwrap(Unwrap(last.replies[1].body.result).result).list
\* the accounts of the reply to a v2 search
V2Replied == Unwrap(last.replies[1].body.result).list

\* C6 witness: the server sent an account with counter 1 before one with
\* counter 2, and the ranked search returned them the other way round
C6_Witness ==
    /\ V3 /\ Searched /\ last.use_usage
    /\ Len(last.out.val) = 2
    /\ Counter(Unwrap(V3Replied[1].id)) = 1
    /\ Counter(Unwrap(V3Replied[2].id)) = 2
    /\ last.out.val[1].id = V3Replied[2].id
    /\ last.out.val[2].id = V3Replied[1].id

\* C7: in the list search_account returns, no account with a zero (or
\* missing) counter precedes one with a nonzero counter, and the accounts with
\* a zero counter are in ascending identifier order; with ranking disabled
\* every counter counts as zero, so the whole list is in ascending
\* identifier order.
C7_ZeroLast ==
    Searched =>
        \A i, j \in 1..Len(last.out.val) :
            (i < j /\ RankOf(last.out.val[i]) = 0) =>
                /\ RankOf(last.out.val[j]) = 0
                /\ Unwrap(last.out.val[i].id) <= Unwrap(last.out.val[j].id)

\* C7 witness: the server sent two never-used accounts in descending
\* identifier order before a used one; the ranked v2 search returned the used
\* one first and the other two in ascending identifier order
C7_Witness ==
    /\ V2 /\ Searched /\ last.use_usage
    /\ Len(last.out.val) = 3
    /\ RankOf(last.out.val[1]) > 0
    /\ RankOf(last.out.val[2]) = 0 /\ RankOf(last.out.val[3]) = 0
    /\ Unwrap(last.out.val[2].id) < Unwrap(last.out.val[3].id)
    /\ V2Replied[1].account_id = Some(to_string(Unwrap(last.out.val[3].id)))
    /\ V2Replied[2].account_id = Some(to_string(Unwrap(last.out.val[2].id)))

\* C8 as stated: no account in the list search_account returns carries a
\* password.
C8_NoPasswordInSearch ==
    Searched => \A i \in 1..Len(last.out.val) : IsNone(last.out.val[i].pass)

\* C9: a successful save returns an entity whose identifier is the one the
\* server's response carries (for v2 save_account: the response to the
\* read-back of the created account), whatever identifier was sent; a
\* response to the save request that decodes and is a result object without
\* an identifier aborts the operation.
C9_ServerAssignedId ==
    /\ (last.op \in SaveOps /\ IsOk(last.out)) =>
          /\ IsSome(last.out.val.id)
          /\ HasItemId(last.replies[1])
          /\ IF V2 /\ last.op = "save_account"
             THEN /\ Len(last.replies) = 2
                  /\ reqs[2].params["id"] = to_string(Unwrap(ItemIdOf(last.replies[1])))
                  /\ last.out.val.id =
                        parse_u32(Unwrap(Unwrap(Unwrap(LastReply.body.result).acct).account_id))
             ELSE /\ Len(last.replies) = 1
                  /\ last.out.val.id = ItemIdOf(LastReply)
    /\ (/\ last.op \in SaveOps /\ Len(last.replies) = 1
        /\ LastReply.net = "http" /\ is_success(LastReply.status)
        /\ LastReply.body.json /\ IsSome(LastReply.body.result)
        /\ IsNone(LastReply.body.error)
        /\ Unwrap(LastReply.body.result).t = "obj"
        /\ ~SchemaMismatch(LastReply.body)
        /\ ~HasItemId(LastReply)) => last.out.t = "Panic"

\* C9 witness: a category sent with identifier 0 came back from the current
\* adapter with the identifier 1 the server assigned
C9_Witness ==
    /\ V3 /\ last.op = "save_category" /\ last.id = Some(0)
    /\ IsOk(last.out) /\ last.out.val.id = Some(1)
    /\ ItemIdOf(LastReply) = Some(1)

\* C10: every request carries authToken, the configured token; it carries
\* tokenPass exactly when the operation touches a secret (save, view of an
\* account, a password, a client or a category, change of a password), never
\* for search, list and delete; tokenPass is the configured password when
\* that is not empty; the prompt is shown only when the configured password
\* is empty and the operation touches a secret.
C10_Params ==
    [][/\ \A i \in 1..Len(reqs') :
            /\ HasParam(reqs'[i], "authToken")
            /\ reqs'[i].params["authToken"] = config.token
            /\ HasParam(reqs'[i], "tokenPass") <=> last'.op \in SecretOps
            /\ (HasParam(reqs'[i], "tokenPass") /\ config.password # "") =>
                   reqs'[i].params["tokenPass"] = config.password
       /\ prompts' # prompts => (config.password = "" /\ last'.op \in SecretOps)]_vars

\* C10 witness: with a password configured, get_password sent a request
\* with the token and that password, and nothing was ever prompted
C10_Witness ==
    /\ config.password = "vault-secret" /\ last.op = "get_password"
    /\ Len(reqs) = 1
    /\ reqs[1].params["authToken"] = "api-token"
    /\ HasParam(reqs[1], "tokenPass") /\ reqs[1].params["tokenPass"] = "vault-secret"
    /\ prompts = 0 /\ calls = 2

\* C11: the k-th request a client hands to the transport carries id k (the
\* counter starts at 1), and whenever an operation has returned, with a value
\* or with an error, the counter is one more than the number of requests
\* handed to the transport so far: every call adds exactly one.
C11_SequentialIds ==
    /\ \A i \in 1..Len(reqs) : reqs[i].id = sent - Len(reqs) + i
    /\ proc = "running" => request_number = sent + 1

\* C11 witness: the second operation of a legacy client sent the request
\* with id 2, failed, and left the counter at 3
C11_Witness ==
    /\ V2 /\ calls = 2 /\ sent = 2
    /\ Len(reqs) = 1 /\ reqs[1].id = 2
    /\ IsErr(last.out) /\ LastReply = ConnError
    /\ request_number = 3

OVERFLOW == "attempt to add with overflow"

\* C12 as stated: no operation aborts because of the counter, and when the
\* request with id 255 has been answered and the process goes on the counter
\* is 0.
C12_WrapTolerated ==
    /\ last.out # Panic(OVERFLOW)
    /\ (Len(reqs) > 0 /\ reqs[Len(reqs)].id = U8_MAX /\ proc = "running")
          => request_number = 0

\* a reply with a success status whose body is a well-formed JSON-RPC error
\* object: an error with code and message, and no result
IsAppError(reply) ==
    /\ reply.net = "http" /\ is_success(reply.status) /\ reply.body.json
    /\ IsNone(reply.body.result)
    /\ IsSome(reply.body.error)
    /\ Unwrap(reply.body.error).code /\ IsSome(Unwrap(reply.body.error).message)
ServerMessage(reply) == Unwrap(Unwrap(reply.body.error).message)

\* the error text is the server's message, or shows it in the dump of the
\* response
Carries(err, message) ==
    \/ err = message
    \/ \E prefix \in {"Invalid response: ", "Invalid response "} :
          err = prefix \o debug_code([result |-> None, error |-> Some(message)])

\* C13 as stated: an operation whose request is answered by a well-formed
\* JSON-RPC error object returns an error that carries the server's message,
\* in either adapter and for every operation.
C13_ErrorPropagated ==
    \A i \in 1..Len(last.replies) :
        IsAppError(last.replies[i]) =>
            /\ IsErr(last.out)
            /\ Carries(last.out.err, ServerMessage(last.replies[i]))

\* the method names of the two adapters
V3Methods ==
    {k \o "/" \o v : k \in {"account", "client", "category"},
                     v \in {"search", "view", "create", "edit", "delete"}}
    \cup {"account/viewPass", "account/editPass"}
V2Methods ==
    {"getAccountSearch", "getAccountPassword", "getAccountData", "getCustomers",
     "getCategories", "addCustomer", "addCategory", "addAccount", "deleteCustomer",
     "deleteCategory", "deleteAccount"}

\* C14: the adapter follows from the configured version string: absent,
\* empty or "SyspassV3" gives the current adapter, "SyspassV2" the legacy
\* one, and with any other string the process aborts at startup without ever
\* sending a request; every request goes to a method of the selected adapter;
\* the selection (and the configuration it was made from) never changes.
C14_SelectedOnce ==
    /\ [](LET version == IF IsSome(config.api_version) THEN Unwrap(config.api_version)
                         ELSE ""
          IN CASE version \in {"", "SyspassV3"} ->
                    /\ api = Ok(SyspassV3)
                    /\ \A i \in 1..Len(reqs) : reqs[i].method \in V3Methods
               [] version = "SyspassV2" ->
                    /\ api = Ok(SyspassV2)
                    /\ \A i \in 1..Len(reqs) : reqs[i].method \in V2Methods
               [] OTHER ->
                    /\ ~IsOk(api) /\ proc = "panic"
                    /\ calls = 0 /\ sent = 0 /\ reqs = <<>>)
    /\ [][api' = api /\ config' = config]_vars

\* C14 witness: with an empty version string the current adapter was selected
\* and two operations later its requests still go to v3 methods
C14_Witness ==
    /\ config.api_version = Some("") /\ api = Ok(SyspassV3)
    /\ calls = 2 /\ sent = 2
    /\ Len(reqs) = 1 /\ reqs[1].method = "category/search"

ListOps == {"get_clients", "get_categories"}

\* a reply in the entity-bearing shape whose result is an object: a legacy
\* list response
IsV2ListResponse(reply) ==
    /\ reply.net = "http" /\ is_success(reply.status) /\ reply.body.json
    /\ ~FitsCode(reply.body) /\ FitsEntity(reply.body)
    /\ Unwrap(reply.body.result).t = "obj"

\* the positions of the members whose key parses as an unsigned integer
NumericKeyed(members) == {i \in 1..Len(members) : IsSome(parse_u32(members[i].key))}

\* C15: for a legacy list response the list get_clients / get_categories
\* returns has exactly one entity per member whose key parses as an unsigned
\* integer, decoded from that member's value; the other members are ignored,
\* whatever they hold: the list is returned whenever the values under the
\* integer keys decode.
C15_NumericKeys ==
    (V2 /\ last.op \in ListOps /\ Len(last.replies) = 1 /\ IsV2ListResponse(LastReply)) =>
        LET members == Unwrap(LastReply.body.result).members
            numeric == NumericKeyed(members)
        IN /\ IsOk(last.out) =>
                /\ Len(last.out.val) = Cardinality(numeric)
                /\ {last.out.val[j].id : j \in 1..Len(last.out.val)}
                     = {parse_u32(Unwrap(members[i].item_id)) : i \in numeric}
           /\ (\A i \in numeric : /\ members[i].wf /\ IsSome(members[i].item_id)
                                   /\ IsSome(parse_u32(Unwrap(members[i].item_id))))
                => IsOk(last.out)

\* C15 witness: the result object had the keys "1", "2" and "description",
\* and get_categories returned the two categories 1 and 2
C15_Witness ==
    /\ V2 /\ last.op = "get_categories" /\ Len(last.replies) = 1
    /\ IsV2ListResponse(LastReply)
    /\ {Unwrap(LastReply.body.result).members[i].key
           : i \in 1..Len(Unwrap(LastReply.body.result).members)} = {"1", "2", "description"}
    /\ IsOk(last.out) /\ Len(last.out.val) = 2
    /\ last.out.val[1].id = Some(1) /\ last.out.val[2].id = Some(2)

Failed(reply) ==
    \/ reply.net = "connerr"
    \/ ~is_success(reply.status)
    \/ ~reply.body.json
    \/ SchemaMismatch(reply.body)
    \/ IsAppError(reply)

DeleteOps == {"delete_client", "delete_category", "delete_account"}
\* a successful response whose result object carries a result code
HasResultCode(reply) ==
    /\ reply.net = "http" /\ is_success(reply.status) /\ reply.body.json
    /\ IsNone(reply.body.error)
    /\ IsSome(reply.body.result)
    /\ Unwrap(reply.body.result).t = "obj"
    /\ IsSome(Unwrap(reply.body.result).resultCode)
ResultCodeOf(reply) == Unwrap(Unwrap(reply.body.result).resultCode)

\* C18: delete_client, delete_category and delete_account return true exactly
\* when the response's result code is 0 and false for every other result
\* code, whatever else the result object carries.
C18_TrueIffZero ==
    (last.op \in DeleteOps /\ Len(last.replies) = 1 /\ HasResultCode(LastReply)) =>
        last.out = Ok(ResultCodeOf(LastReply) = 0)

RankedSearched == last.op = "search_account" /\ last.use_usage
\* the number of accounts the reply to the last search carries
RepliedCount == IF V3 THEN Len(V3Replied) ELSE Len(V2Replied)
Ascending(list) ==
    \A i, j \in 1..Len(list) : i < j => Unwrap(list[i].id) <= Unwrap(list[j].id)

\* C19: when the usage data is unavailable or unreadable (usage.json missing,
\* not readable, or not a counter map), a ranked search_account whose request
\* was answered with a list of accounts still returns those accounts, in
\* ascending identifier order, instead of failing or aborting.
C19_UsageFallback ==
    (RankedSearched /\ last.store.kind # "map") =>
        /\ IsOk(last.out)
        /\ Len(last.out.val) = RepliedCount
        /\ Ascending(last.out.val)

\* C20 as stated: search_account, ranked or not and whatever the state of
\* the usage store, leaves the persisted usage store as it found it.
C20_ReadOnly ==
    last.op = "search_account" =>
        /\ usage.kind = last.store.kind
        /\ usage.kind = "map" => usage.map = last.store.map

\* C20: search_account leaves the persisted usage store as it found it,
\* except that a ranked search that finds no store creates one holding the
\* single counter 0 for identifier 0: every ranked search that returns on a
\* missing store has created it, and no other search changes the store.
C20_CreatedOrKept ==
    last.op = "search_account" =>
        /\ \/ C20_ReadOnly
           \/ /\ last.use_usage /\ last.store.kind = "missing"
              /\ usage.kind = "map" /\ usage.map = DefaultUsage
        /\ (last.use_usage /\ last.store.kind = "missing" /\ IsOk(last.out)) =>
               (usage.kind = "map" /\ usage.map = DefaultUsage)

\* C20 witness: a ranked search found no usage store, returned two accounts
\* in ascending identifier order and left a store holding {0: 0}
C20_Witness ==
    /\ RankedSearched /\ last.store.kind = "missing"
    /\ IsOk(last.out) /\ Len(last.out.val) = 2
    /\ Unwrap(last.out.val[1].id) < Unwrap(last.out.val[2].id)
    /\ usage.kind = "map" /\ usage.map = DefaultUsage

\* the counters of a store that holds a counter map (none when it is absent)
CountersOf(store) == IF store.kind = "map" THEN store.map ELSE <<>>
Readable(store) == store.kind \in {"map", "missing"}

\* C21: on a store that holds a counter map, or on a fresh (absent) one,
\* record_usage(id) returns with the counter of id increased by exactly 1 (an
\* identifier without an entry reads 1) and every other counter as it was,
\* and get_usage_data changes no counter.
C21_CountsOne ==
    /\ (last.op = "record_usage" /\ Readable(last.store)) =>
          LET before == CountersOf(last.store)
              id == Unwrap(last.id)
          IN /\ IsOk(last.out) /\ usage.kind = "map"
             /\ usage_of(before, id) # U32_MAX
             /\ usage_of(usage.map, id) = usage_of(before, id) + 1
             /\ \A k \in (DOMAIN before \cup DOMAIN usage.map) \ {id} :
                   usage_of(usage.map, k) = usage_of(before, k)
    /\ (last.op = "get_usage_data" /\ Readable(last.store)) =>
          /\ IsOk(last.out) /\ usage.kind = "map"
          /\ \A k \in DOMAIN CountersOf(last.store) \cup DOMAIN usage.map :
                usage_of(usage.map, k) = usage_of(CountersOf(last.store), k)

\* the positions of an event in the log of the command
At(ev) == {i \in 1..Len(run.log) : run.log[i].ev = ev}
Searching == run.cmd = "search" /\ ~run.args.clear
\* the call of get_password that returned the password the command revealed
Fetched == {i \in At("get_password") : IsOk(run.log[i].x.out)}
PasswordViewed == Searching /\ Fetched # {} /\ At("print") # {}
ViewedId == Unwrap(run.log[CHOOSE i \in Fetched : TRUE].x.out.val.account.id)

\* C22: with usage tracking enabled, every run of the search command that
\* shows an account's password (picked from several results, the single
\* result, or addressed by id) has written the usage store, adding 1 to the
\* counter of that account, after the account was viewed or selected; and a
\* ranked search has read the store before it returned its list.
C22_UsageRecorded ==
    /\ (PasswordViewed /\ ~run.args.disable_usage) =>
          /\ \E i \in At("usage_write") :
                /\ run.log[i].x = ViewedId
                /\ \E j \in At("select") \cup At("view_account") \cup At("search_account") :
                      j < i
          /\ usage.kind = "map"
          /\ usage_of(usage.map, ViewedId) = usage_of(CountersOf(last.store), ViewedId) + 1
    /\ (Searching /\ ~run.args.disable_usage) =>
          \A j \in At("search_account") :
              IsOk(run.log[j].x.out) => \E i \in At("usage_read") : i < j

\* C23: a run of the search command with --disable-usage neither reads nor
\* writes the usage store, whichever account is selected, and the list its
\* search returned is in ascending identifier order.
C23_UsageDisabled ==
    (Searching /\ run.args.disable_usage) =>
        /\ At("usage_read") = {} /\ At("usage_write") = {}
        /\ usage.kind = last.store.kind
        /\ usage.kind = "map" => usage.map = last.store.map
        /\ \A j \in At("search_account") :
              IsOk(run.log[j].x.out) => Ascending(run.log[j].x.out.val)

\* C23 witness: the store ranks account 2 first; with --disable-usage the
\* search returned account 1 before account 2, the user picked account 2, its
\* password was shown and the store still holds what it held
C23_Witness ==
    /\ Searching /\ run.args.disable_usage /\ run.code = Some(0)
    /\ last.store.kind = "map" /\ usage_of(last.store.map, 2) = 1
    /\ \E j \in At("search_account") :
          /\ IsOk(run.log[j].x.out) /\ Len(run.log[j].x.out.val) = 2
          /\ run.log[j].x.out.val[1].id = Some(1)
          /\ run.log[j].x.out.val[2].id = Some(2)
    /\ \E i \in At("select") : run.log[i].x = 2
    /\ PasswordViewed /\ ViewedId = 2
    /\ usage.kind = "map" /\ usage.map = last.store.map

\* C24: in every run of the search command the clipboard-clearing process is
\* started only after get_password has returned the password and the
\* password was placed on the clipboard; never when get_password failed, when
\* the password is shown as plain text, or when the timeout is 0.
C24_ClearAfterReveal ==
    Searching =>
        \A j \in At("spawn_clear") :
            /\ \E i \in Fetched : i < j
            /\ \E k \in At("clipboard_set") : k < j
            /\ ~run.args.show
            /\ password_timeout > 0

---------------------------------------------------------------------------
(* remove *)

\* the calls of the run and how they came out
CallsOf(name) == {i \in 1..Len(run.log) : run.log[i].ev = name}
Removed == run.cmd = "remove"
IdGiven == IsSome(run.args.id) /\ Unwrap(run.args.id) > 0
RemoveSendsOne ==
    IdGiven =>
        /\ Len(reqs) = 1
        /\ reqs[1].method \in {"account/delete", "client/delete", "category/delete",
                               "deleteAccount", "deleteCustomer", "deleteCategory"}
        /\ \A i \in CallsOf("delete") :
              /\ IsOk(run.log[i].x.out) => run.code = Some(0)
              /\ run.code # Some(0) => ~IsOk(run.log[i].x.out)
        /\ CallsOf("delete") # {}

\* C30 as stated: remove sends nothing and fails with 'Invalid id given' when
\* the id is absent or 0; with an id above 0 it sends exactly one delete
\* request, exits with 0 when the request returned without error (the result
\* true or false) and with another code only when it did not.
C30_Original ==
    Removed =>
        /\ ~IdGiven => reqs = <<>> /\ last.out = Err("Invalid id given") /\ run.code = Some(1)
        /\ RemoveSendsOne

\* C30, amended: as stated, except that an absent id under --quiet ends the
\* process with code 1 before the id is checked ("Could not ask for input"
\* goes to the logger --quiet turned off): nothing is sent and 'Invalid id
\* given' is not the failure.
C30_Remove ==
    Removed =>
        /\ ~IdGiven =>
              /\ reqs = <<>>
              /\ run.code = Some(1)
              /\ IF IsNone(run.args.id) /\ run.args.quiet
                 THEN last.out = Exit /\ run.log = <<>>
                 ELSE last.out = Err("Invalid id given")
        /\ RemoveSendsOne

\* a delete that came back false still ends with the code 0
C30_Witness ==
    /\ Removed /\ IdGiven /\ run.code = Some(0) /\ Len(reqs) = 1
    /\ \E i \in CallsOf("delete") : run.log[i].x.out = Ok(FALSE)

\* an absent id under --quiet
C30_QuietWitness ==
    Removed /\ IsNone(run.args.id) /\ run.args.quiet /\ run.code = Some(1)

---------------------------------------------------------------------------
(* edit *)

Edited == run.cmd \in {"edit category", "edit client", "edit password"}
\* --id n, above 0 for a category or a client
EditsId ==
    \/ run.cmd = "edit password"
    \/ IsSome(run.args.id) /\ Unwrap(run.args.id) > 0
\* --expiration is a date where it is given
WellFormed ==
    run.cmd = "edit password" =>
        IsNone(run.args.expiration) \/ Unwrap(run.args.expiration) \in Dates
\* the calls of the run, whatever the operation
AllCalls == {i \in 1..Len(run.log) : run.log[i].ev \notin
                {"select", "cancelled", "chosen", "warn", "error", "print", "usage_read",
                 "usage_write", "clipboard_set", "clipboard_clear", "spawn_clear"}}
\* every reply the server gave is the reply of a server that cooperates
ServerCooperates ==
    \A i \in AllCalls :
        \A k \in 1..Len(run.log[i].x.replies) : run.log[i].x.replies[k] \in Cooperating
\* the user answers every prompt and the new password is not empty
UserCompletes ==
    /\ \A i \in 1..Len(run.log) : run.log[i].ev # "cancelled"
    /\ \A i \in AllCalls : run.log[i].x.out # Exit
    /\ run.cmd = "edit password" =>
          \/ IsSome(run.args.password)
          \/ \E i \in 1..Len(run.log) : run.log[i].ev = "chosen" /\ run.log[i].x # ""

\* C25: with the legacy adapter `edit category --id n`, `edit client --id n`
\* (n > 0) and `edit password --id n` end with exit code 1 and nothing sent;
\* with the current adapter, a server that cooperates and a user who
\* completes the prompts they end with exit code 0.  (A --expiration that is
\* given is a date.)
C25_EditById ==
    Edited /\ EditsId /\ WellFormed =>
        /\ V2 => run.code = Some(1) /\ reqs = <<>> /\ sent = 0
        /\ V3 /\ ServerCooperates /\ UserCompletes => run.code = Some(0)

\* the current adapter: the category was fetched and saved, exit code 0
C25_Witness ==
    /\ V3 /\ run.cmd = "edit category" /\ EditsId /\ ServerCooperates /\ UserCompletes
    /\ run.code = Some(0)
    /\ Len(reqs) = 2

\* the legacy adapter: a password change refused before anything was sent
C25_LegacyWitness ==
    /\ V2 /\ run.cmd = "edit password" /\ WellFormed /\ UserCompletes
    /\ last.out = Err(NOT_SUPPORTED)
    /\ run.code = Some(1)

---------------------------------------------------------------------------
(* errors of the API and the exit code *)

\* the error of call i was printed: by error! after it, or by the panic
\* that ended the process
Reported(i) ==
    \/ \E j \in (i + 1)..Len(run.log) : run.log[j].ev = "error"
    \/ last.out.t = "Panic"

\* C26: when an operation of the API a command invoked returned an error,
\* the process reports it (unless --quiet turned the logger off) and ends with
\* an exit code other than 0; the exit code 0 comes only from commands whose
\* operations all returned success.
C26_ErrorsExit ==
    run.cmd # "none" =>
        /\ \A i \in AllCalls :
              IsErr(run.log[i].x.out) =>
                  /\ run.code # Some(0)
                  /\ ~run.args.quiet => Reported(i)
        /\ run.code = Some(0) => \A i \in AllCalls : IsOk(run.log[i].x.out)

---------------------------------------------------------------------------
(* the two shapes of a legacy response *)

\* the legacy operations that read the entity-bearing shape
EntityOps == {"search_account", "get_password", "get_clients", "get_categories"}

\* the bodies the legacy adapter decoded in the last operation
Decoded ==
    {i \in 1..Len(last.replies) :
        IsOk(get_response(last.replies[i])) /\ last.replies[i].body.json}

\* the body is classified by the first shape it fits, the code shape first
ClassifiedInOrder(reply) ==
    LET body == reply.body
        response == send_request(reply)
    IN /\ FitsCode(body) => IsOk(response) /\ response.val = DecodeCode(body)
       /\ (~FitsCode(body) /\ FitsEntity(body)) =>
              IsOk(response) /\ response.val = DecodeEntity(body)
       /\ (~FitsCode(body) /\ ~FitsEntity(body)) => response = Err(NO_VARIANT)

\* C27: the legacy adapter tries the code shape first and the entity shape
\* second: a body that fits the code shape is a code response even if it fits
\* the entity shape too, a body that fits only the entity shape is an entity
\* response, a body that fits neither is a decode error; and an operation
\* that expects an entity response and receives a code response returns an
\* error.
C27_DecodeOrder ==
    V2 =>
        \A i \in Decoded :
            /\ ClassifiedInOrder(last.replies[i])
            /\ (last.op \in EntityOps /\ FitsCode(last.replies[i].body)) => IsErr(last.out)

---------------------------------------------------------------------------
(* the two requests of a legacy save_account *)

\* C28: a legacy save_account sends "addAccount" first, with tokenPass; it
\* sends "getAccountData" only after a reply to addAccount that carries no
\* error and an item id, and for exactly that id; a rejected addAccount is
\* followed by no second request and is the error returned; a failure of the
\* second request is the error save_account returns.
C28_AddThenRead ==
    (V2 /\ last.op = "save_account") =>
        /\ Len(reqs) <= 2
        /\ Len(reqs) >= 1 =>
              reqs[1].method = "addAccount" /\ HasParam(reqs[1], "tokenPass")
        /\ Len(reqs) = 2 =>
              /\ IsNone(last.replies[1].body.error)
              /\ HasItemId(last.replies[1]) /\ IsSome(ItemIdOf(last.replies[1]))
              /\ reqs[2].method = "getAccountData"
              /\ reqs[2].params.id = to_string(Unwrap(ItemIdOf(last.replies[1])))
        /\ (Len(last.replies) >= 1 /\ IsAppError(last.replies[1])) =>
              Len(reqs) = 1 /\ last.out = Err(ServerMessage(last.replies[1]))
        /\ (Len(reqs) = 2 /\ Failed(last.replies[2])) => IsErr(last.out)

\* the account was added under the id 1 and the read-back failed
C28_Witness ==
    /\ V2 /\ last.op = "save_account" /\ Len(reqs) = 2
    /\ reqs[1].method = "addAccount" /\ reqs[2].method = "getAccountData"
    /\ reqs[2].params.id = "1"
    /\ last.replies[2] = ConnError
    /\ last.out = Err(CONNECT_ERROR)

\* a rejected addAccount
C28_RejectedWitness ==
    /\ V2 /\ last.op = "save_account" /\ Len(reqs) = 1
    /\ last.out = Err("Failed to add account")

---------------------------------------------------------------------------
(* sort_accounts: a stable permutation *)

\* the identifiers of the accounts in the order the server sent them, and in
\* the order the search returned them
RepliedIds ==
    [i \in 1..RepliedCount |->
        IF V3 THEN Unwrap(V3Replied[i].id) ELSE Unwrap(parse_u32(Unwrap(V2Replied[i].account_id)))]
ReturnedIds == [i \in 1..Len(last.out.val) |-> Unwrap(last.out.val[i].id)]
Occurrences(ids, k) == Cardinality({i \in 1..Len(ids) : ids[i] = k})
\* the accounts the ranking counts c uses for, in the order of the list
WithCounter(ids, c) ==
    SelectSeq(ids, LAMBDA k : (IF last.use_usage THEN Counter(k) ELSE 0) = c)

\* C29: the list search_account returns is a permutation of the list the
\* server sent, and accounts with the same nonzero usage counter are in it
\* in the order the server sent them, whatever their identifiers.
C29_StablePermutation ==
    Searched =>
        /\ Len(ReturnedIds) = Len(RepliedIds)
        /\ \A k \in AccountIds : Occurrences(ReturnedIds, k) = Occurrences(RepliedIds, k)
        /\ \A c \in 1..MaxCount : WithCounter(ReturnedIds, c) = WithCounter(RepliedIds, c)

\* accounts 2 and 1 have the same nonzero counter, the server sent 2 first and
\* 2 came back first
C29_Witness ==
    /\ Searched /\ last.use_usage
    /\ Counter(1) > 0 /\ Counter(1) = Counter(2)
    /\ RepliedIds = <<2, 1>>
    /\ ReturnedIds = <<2, 1>>

====
